---- MODULE Spec2Model ----
(***************************************************************************)
(* Model of the plakar snapshot commit pipeline and repository state.     *)
(*                                                                         *)
(*   - repository/state/state.go : the content-addressed index (State)    *)
(*   - snapshot (unnamed/part_001): the packer workers, PutPackfile,       *)
(*     the Put* calls and Commit                                           *)
(*                                                                         *)
(* Three specifications share the variables:                               *)
(*   Spec        sequential calls of the State API on one State            *)
(*   SpecMerge   two States built by SetPackfileFor* calls, and Merge      *)
(*   SpecConc    threads calling SetPackfileFor* on one State, one step    *)
(*               per critical section                                      *)
(*   SpecSession one snapshot session: producer, packer workers, backend   *)
(***************************************************************************)
EXTENDS Integers, Sequences, FiniteSets, TLC

(* ------------------------------------------------------------------ *)
(* Bounds                                                               *)
(* ------------------------------------------------------------------ *)

\* number of State API calls of one behaviour of Spec
MaxOps == 3

\* number of threads that call SetPackfileFor* concurrently in SpecConc
NumThreads == 2

\* number of Put* calls the producer makes before Commit
MaxPuts == 2

\* the values of runtime.NumCPU() the sessions run with
CPUs == {1, 2}

\* the all-zero MAC, [32]byte{}
ZeroMAC == 0

\* the blob MACs the callers of the State API use
MACs == {1, 2}

\* the packfile MACs the callers of the State API pass
PackMACs == {11, 12}

\* the (packfile, offset, length) arguments the callers of the State API pass
Subparts ==
  { [pf |-> 11, off |-> 0, len |-> 4],
    [pf |-> 12, off |-> 4, len |-> 8] }

\* the two State values: the repository state and a delta
StateNames == {"repo", "delta"}

\* the blob types a PackerMsg carries (packfile.TYPE_*), in the order
\* PutPackfile registers them
PackTypes == {"chunk", "object", "file", "directory", "data", "snapshot"}

\* the kinds state.go has a Set/Get/Exists method for
Kinds == {"chunk", "object", "file", "directory", "blob"}

(* ------------------------------------------------------------------ *)
(* repository/state: State                                              *)
(* ------------------------------------------------------------------ *)

EmptyMap == [x \in {} |-> 0]

\* m[k] = v, as the Go statement does it (insert or overwrite)
MapPut(m, k, v) == [x \in (DOMAIN m) \cup {k} |-> IF x = k THEN v ELSE m[x]]

Location(packfileID, offset, length) ==
  [Packfile |-> packfileID, Offset |-> offset, Length |-> length]

\* const VERSION
VERSION == 100

\* state.New(); Snapshots is the sixth map of the specification (no field of
\* this name exists in state.go)
New ==
  [ checksumToId |-> EmptyMap,
    IdToChecksum |-> EmptyMap,
    Chunks       |-> EmptyMap,
    Objects      |-> EmptyMap,
    Files        |-> EmptyMap,
    Directories  |-> EmptyMap,
    Blobs        |-> EmptyMap,
    Snapshots    |-> EmptyMap,
    Version      |-> VERSION,
    Extends      |-> << >>,
    dirty        |-> 0 ]

\* the id getOrCreateIdForChecksum returns
IdForChecksum(st, checksum) ==
  IF checksum \in DOMAIN st.checksumToId
    THEN st.checksumToId[checksum]
    ELSE Cardinality(DOMAIN st.IdToChecksum)

\* mutant of getOrCreateIdForChecksum: the new id is len(IdToChecksum) + 1
getOrCreateIdForChecksumSkipsId(st, checksum) ==
  IF checksum \in DOMAIN st.checksumToId
    THEN st
    ELSE LET newID == Cardinality(DOMAIN st.IdToChecksum) + 1
         IN  [st EXCEPT !.checksumToId = MapPut(@, checksum, newID),
                        !.IdToChecksum = MapPut(@, newID, checksum)]

\* the State getOrCreateIdForChecksum leaves behind
getOrCreateIdForChecksum(st, checksum) ==
  IF checksum \in DOMAIN st.checksumToId
    THEN st
    ELSE LET newID == Cardinality(DOMAIN st.IdToChecksum)
         IN  [st EXCEPT !.checksumToId = MapPut(@, checksum, newID),
                        !.IdToChecksum = MapPut(@, newID, checksum)]

\* mutant of SetPackfileIn: the packfile checksum is looked up but not interned
SetPackfileInNoPackfileIntern(st, guard, target, packfileChecksum, checksum, offset, length) ==
  LET packfileID == IdForChecksum(st, packfileChecksum)
      st2        == getOrCreateIdForChecksum(st, checksum)
      blobID     == IdForChecksum(st2, checksum)
  IN  IF blobID \in DOMAIN st2[guard]
        THEN st2
        ELSE [st2 EXCEPT ![target] = MapPut(@, blobID,
                                            Location(packfileID, offset, length)),
                         !.dirty = 1]

\* the body shared by the five SetPackfileFor* methods: both checksums are
\* interned, the map `guard` is tested for the blob id and the Location is
\* stored in the map `target`
SetPackfileIn(st, guard, target, packfileChecksum, checksum, offset, length) ==
  LET st1        == getOrCreateIdForChecksum(st, packfileChecksum)
      packfileID == IdForChecksum(st1, packfileChecksum)
      st2        == getOrCreateIdForChecksum(st1, checksum)
      blobID     == IdForChecksum(st2, checksum)
  IN  IF blobID \in DOMAIN st2[guard]
        THEN st2
        ELSE [st2 EXCEPT ![target] = MapPut(@, blobID,
                                            Location(packfileID, offset, length)),
                         !.dirty = 1]

SetPackfileForChunk(st, packfileChecksum, chunkChecksum, packfileOffset, chunkLength) ==
  SetPackfileIn(st, "Chunks", "Chunks", packfileChecksum, chunkChecksum,
                packfileOffset, chunkLength)

SetPackfileForObject(st, packfileChecksum, objectChecksum, packfileOffset, chunkLength) ==
  SetPackfileIn(st, "Objects", "Objects", packfileChecksum, objectChecksum,
                packfileOffset, chunkLength)

\* tests st.Files, stores into st.Objects
SetPackfileForFile(st, packfileChecksum, fileChecksum, packfileOffset, chunkLength) ==
  SetPackfileIn(st, "Files", "Objects", packfileChecksum, fileChecksum,
                packfileOffset, chunkLength)

\* tests st.Directories, stores into st.Objects
SetPackfileForDirectory(st, packfileChecksum, directoryChecksum, packfileOffset, chunkLength) ==
  SetPackfileIn(st, "Directories", "Objects", packfileChecksum, directoryChecksum,
                packfileOffset, chunkLength)

\* tests st.Blobs, stores into st.Objects
SetPackfileForBlob(st, packfileChecksum, blobChecksum, packfileOffset, chunkLength) ==
  SetPackfileIn(st, "Blobs", "Objects", packfileChecksum, blobChecksum,
                packfileOffset, chunkLength)

\* the body shared by the five <Kind>Exists methods: the checksum is interned
\* and the map `field` is tested for its id
ExistsIn(st, field, checksum) ==
  LET st1 == getOrCreateIdForChecksum(st, checksum)
      id  == IdForChecksum(st1, checksum)
  IN  [st |-> st1, found |-> id \in DOMAIN st1[field]]

ChunkExists(st, chunkChecksum)   == ExistsIn(st, "Chunks", chunkChecksum)
ObjectExists(st, objectChecksum) == ExistsIn(st, "Objects", objectChecksum)
FileExists(st, checksum)         == ExistsIn(st, "Files", checksum)
DirectoryExists(st, checksum)    == ExistsIn(st, "Directories", checksum)
\* tests st.Directories
BlobExists(st, checksum)         == ExistsIn(st, "Directories", checksum)

\* the result of a lookup that found nothing: [32]byte{}, 0, 0, false
NotFound == [found |-> FALSE, packfile |-> ZeroMAC, offset |-> 0, length |-> 0]

\* st.IdToChecksum[id] of a Go map: the zero value for a missing key
ChecksumOfId(st, id) ==
  IF id \in DOMAIN st.IdToChecksum THEN st.IdToChecksum[id] ELSE ZeroMAC

\* the body shared by the five GetSubpartFor* methods
GetSubpartIn(st, field, checksum) ==
  LET st1 == getOrCreateIdForChecksum(st, checksum)
      id  == IdForChecksum(st1, checksum)
  IN  IF id \notin DOMAIN st1[field]
        THEN [st |-> st1, ret |-> NotFound]
        ELSE [st |-> st1,
              ret |-> [found    |-> TRUE,
                       packfile |-> ChecksumOfId(st1, st1[field][id].Packfile),
                       offset   |-> st1[field][id].Offset,
                       length   |-> st1[field][id].Length]]

GetSubpartForChunk(st, chunkChecksum)   == GetSubpartIn(st, "Chunks", chunkChecksum)
GetSubpartForObject(st, objectChecksum) == GetSubpartIn(st, "Objects", objectChecksum)
GetSubpartForFile(st, checksum)         == GetSubpartIn(st, "Files", checksum)
GetSubpartForDirectory(st, checksum)    == GetSubpartIn(st, "Directories", checksum)
GetSubpartForBlob(st, checksum)         == GetSubpartIn(st, "Blobs", checksum)

\* the body shared by the five GetPackfileFor* methods: packfile checksum and
\* found flag only
GetPackfileIn(st, field, checksum) ==
  LET r == GetSubpartIn(st, field, checksum)
  IN  [st |-> r.st,
       ret |-> [found |-> r.ret.found, packfile |-> r.ret.packfile,
                offset |-> 0, length |-> 0]]

GetPackfileForChunk(st, chunkChecksum)       == GetPackfileIn(st, "Chunks", chunkChecksum)
GetPackfileForObject(st, objectChecksum)     == GetPackfileIn(st, "Objects", objectChecksum)
GetPackfileForFile(st, fileChecksum)         == GetPackfileIn(st, "Files", fileChecksum)
GetPackfileForDirectory(st, directoryChecksum) ==
  GetPackfileIn(st, "Directories", directoryChecksum)
GetPackfileForBlob(st, blobChecksum)         == GetPackfileIn(st, "Blobs", blobChecksum)

Dirty(st) == st.dirty # 0

ResetDirty(st) == [st EXCEPT !.dirty = 0]

\* the method of each kind
SetPackfileFor(kind, st, packfileChecksum, checksum, offset, length) ==
  CASE kind = "chunk"     -> SetPackfileForChunk(st, packfileChecksum, checksum, offset, length)
    [] kind = "object"    -> SetPackfileForObject(st, packfileChecksum, checksum, offset, length)
    [] kind = "file"      -> SetPackfileForFile(st, packfileChecksum, checksum, offset, length)
    [] kind = "directory" -> SetPackfileForDirectory(st, packfileChecksum, checksum, offset, length)
    [] kind = "blob"      -> SetPackfileForBlob(st, packfileChecksum, checksum, offset, length)

ExistsFor(kind, st, checksum) ==
  CASE kind = "chunk"     -> ChunkExists(st, checksum)
    [] kind = "object"    -> ObjectExists(st, checksum)
    [] kind = "file"      -> FileExists(st, checksum)
    [] kind = "directory" -> DirectoryExists(st, checksum)
    [] kind = "blob"      -> BlobExists(st, checksum)

GetSubpartFor(kind, st, checksum) ==
  CASE kind = "chunk"     -> GetSubpartForChunk(st, checksum)
    [] kind = "object"    -> GetSubpartForObject(st, checksum)
    [] kind = "file"      -> GetSubpartForFile(st, checksum)
    [] kind = "directory" -> GetSubpartForDirectory(st, checksum)
    [] kind = "blob"      -> GetSubpartForBlob(st, checksum)

GetPackfileFor(kind, st, checksum) ==
  CASE kind = "chunk"     -> GetPackfileForChunk(st, checksum)
    [] kind = "object"    -> GetPackfileForObject(st, checksum)
    [] kind = "file"      -> GetPackfileForFile(st, checksum)
    [] kind = "directory" -> GetPackfileForDirectory(st, checksum)
    [] kind = "blob"      -> GetPackfileForBlob(st, checksum)

\* the map a kind names in the specification
MapOf(kind) ==
  CASE kind = "chunk"     -> "Chunks"
    [] kind = "object"    -> "Objects"
    [] kind = "file"      -> "Files"
    [] kind = "directory" -> "Directories"
    [] kind = "blob"      -> "Blobs"
    [] kind = "snapshot"  -> "Snapshots"

MapNames == {"Chunks", "Objects", "Files", "Directories", "Blobs", "Snapshots"}

\* the entries of one map of a State, keyed by MAC instead of intern id
ByMAC(st, field) ==
  { [mac |-> ChecksumOfId(st, id),
     packfile |-> ChecksumOfId(st, st[field][id].Packfile),
     offset |-> st[field][id].Offset,
     length |-> st[field][id].Length] : id \in DOMAIN st[field] }

\* the MACs that are keys of one map of a State
KeysByMAC(st, field) == { ChecksumOfId(st, id) : id \in DOMAIN st[field] }

\* the calls Merge makes on the receiving State, one map after the other
\* (Chunks, Objects, Files, Directories, Blobs); Go ranges over each map in an
\* order of its own choosing, `order` is that order as a sequence of delta ids
RECURSIVE MergeMap(_, _, _, _, _)
MergeMap(st, deltaState, kind, field, ids) ==
  IF ids = {}
    THEN {st}
    ELSE UNION { MergeMap(
                   SetPackfileFor(kind, st,
                     ChecksumOfId(deltaState, deltaState[field][id].Packfile),
                     ChecksumOfId(deltaState, id),
                     deltaState[field][id].Offset,
                     deltaState[field][id].Length),
                   deltaState, kind, field, ids \ {id}) : id \in ids }

\* the States st.Merge(stateID, deltaState) can leave in st; stateID is not
\* read by the method
Merge(st, deltaState) ==
  LET s1 == MergeMap(st, deltaState, "chunk", "Chunks", DOMAIN deltaState.Chunks)
      s2 == UNION { MergeMap(s, deltaState, "object", "Objects",
                             DOMAIN deltaState.Objects) : s \in s1 }
      s3 == UNION { MergeMap(s, deltaState, "file", "Files",
                             DOMAIN deltaState.Files) : s \in s2 }
      s4 == UNION { MergeMap(s, deltaState, "directory", "Directories",
                             DOMAIN deltaState.Directories) : s \in s3 }
  IN  UNION { MergeMap(s, deltaState, "blob", "Blobs",
                       DOMAIN deltaState.Blobs) : s \in s4 }

(* ------------------------------------------------------------------ *)
(* repository/state: Serialize and NewFromBytes                         *)
(* ------------------------------------------------------------------ *)

\* no State: the nil *State a failed NewFromBytes returns
NoState == [nil |-> TRUE]

\* st.Extends(stateID)
Extends(st, stateID) == [st EXCEPT !.Extends = Append(@, stateID)]

RECURSIVE Ascending(_)
\* the numbers of a set, smallest first
Ascending(S) ==
  IF S = {} THEN << >>
  ELSE LET k == CHOOSE x \in S : \A y \in S : x <= y
       IN  <<k>> \o Ascending(S \ {k})

Reverse(seq) == [i \in 1..Len(seq) |-> seq[Len(seq) + 1 - i]]

\* the order in which the encoder walks the keys of a Go map: unspecified;
\* two of the orders are modelled
KeyOrder(m, asc) == IF asc THEN Ascending(DOMAIN m) ELSE Reverse(Ascending(DOMAIN m))

RECURSIVE Flatten(_)
Flatten(seqs) == IF seqs = << >> THEN << >> ELSE Head(seqs) \o Flatten(Tail(seqs))

\* a map[uint64][32]byte on the wire: the number of entries, then key and value
\* of each
EncodeChecksums(m, asc) ==
  LET order == KeyOrder(m, asc)
  IN  <<Len(order)>> \o Flatten([i \in 1..Len(order) |-> <<order[i], m[order[i]]>>])

\* a map[uint64]Location on the wire: the number of entries, then key,
\* Packfile, Offset and Length of each
EncodeLocations(m, asc) ==
  LET order == KeyOrder(m, asc)
  IN  <<Len(order)>> \o
      Flatten([i \in 1..Len(order) |->
                 <<order[i], m[order[i]].Packfile, m[order[i]].Offset, m[order[i]].Length>>])

\* the width of an entry of each map on the wire, in the order of the fields:
\* IdToChecksum, Chunks, Objects, Files, Directories, Blobs, Snapshots
MapWidths == <<2, 4, 4, 4, 4, 4, 4>>

LocationFields == <<"Chunks", "Objects", "Files", "Directories", "Blobs", "Snapshots">>

\* msgpack.Marshal(st): the exported fields, in the order of the struct; the
\* mutexes, checksumToId and dirty are not exported and not written
Marshal(st, asc) ==
  EncodeChecksums(st.IdToChecksum, asc)
    \o Flatten([i \in 1..Len(LocationFields) |-> EncodeLocations(st[LocationFields[i]], asc)])
    \o <<st.Version>>
    \o <<Len(st.Extends)>> \o st.Extends

\* binary.LittleEndian.PutUint32
PutUint32(v) ==
  <<v % 256, (v \div 256) % 256, (v \div 65536) % 256, (v \div 16777216) % 256>>

\* binary.LittleEndian.Uint32
Uint32(b) == b[1] + 256 * b[2] + 65536 * b[3] + 16777216 * b[4]

\* st.Serialize(): the encoded State followed by Metadata.Version in 4 bytes
Serialize(st, asc) == Marshal(st, asc) \o PutUint32(st.Version)

\* the decoder's result when the bytes are not an encoded State
DecodeError == [ok |-> FALSE, sections |-> << >>, next |-> 0]

RECURSIVE ParseSections(_, _, _)
\* the decoder reads one map after the other from position pos: the number of
\* entries, then the entries, each of the width of its map
ParseSections(bytes, pos, widths) ==
  IF widths = << >>
    THEN [ok |-> TRUE, sections |-> << >>, next |-> pos]
    ELSE IF pos > Len(bytes)
      THEN DecodeError
      ELSE LET n     == bytes[pos]
               width == Head(widths)
               last  == pos + n * width
           IN  IF last > Len(bytes)
                 THEN DecodeError
                 ELSE LET rows == [i \in 1..n |->
                                     SubSeq(bytes, pos + 1 + (i - 1) * width, pos + i * width)]
                          rest == ParseSections(bytes, last + 1, Tail(widths))
                      IN  IF rest.ok
                            THEN [ok |-> TRUE, sections |-> <<rows>> \o rest.sections,
                                  next |-> rest.next]
                            ELSE DecodeError

\* the row the decoder keeps for a key: the last one read
RowOf(rows, k) ==
  rows[CHOOSE i \in 1..Len(rows) :
         rows[i][1] = k /\ \A j \in (i + 1)..Len(rows) : rows[j][1] # k]

DecodeChecksums(rows) ==
  [k \in { rows[i][1] : i \in 1..Len(rows) } |-> RowOf(rows, k)[2]]

DecodeLocations(rows) ==
  [k \in { rows[i][1] : i \in 1..Len(rows) } |->
     Location(RowOf(rows, k)[2], RowOf(rows, k)[3], RowOf(rows, k)[4])]

\* msgpack.Unmarshal(serialized, &st) into a zero State: the exported fields
\* are filled, checksumToId stays nil and dirty 0
Unmarshal(bytes) ==
  LET maps == ParseSections(bytes, 1, MapWidths)
  IN  IF ~maps.ok \/ maps.next > Len(bytes)
        THEN [ok |-> FALSE, st |-> NoState]
        ELSE LET lineage == ParseSections(bytes, maps.next + 1, <<1>>)
             IN  IF ~lineage.ok
                   THEN [ok |-> FALSE, st |-> NoState]
                   ELSE [ok |-> TRUE,
                         st |-> [ checksumToId |-> EmptyMap,
                                  IdToChecksum |-> DecodeChecksums(maps.sections[1]),
                                  Chunks       |-> DecodeLocations(maps.sections[2]),
                                  Objects      |-> DecodeLocations(maps.sections[3]),
                                  Files        |-> DecodeLocations(maps.sections[4]),
                                  Directories  |-> DecodeLocations(maps.sections[5]),
                                  Blobs        |-> DecodeLocations(maps.sections[6]),
                                  Snapshots    |-> DecodeLocations(maps.sections[7]),
                                  Version      |-> bytes[maps.next],
                                  Extends      |-> [i \in 1..Len(lineage.sections[1]) |->
                                                      lineage.sections[1][i][1]],
                                  dirty        |-> 0 ]]

\* mutant of rebuildChecksums: checksumToId is made but not filled
rebuildChecksumsEmpty(st) == [st EXCEPT !.checksumToId = EmptyMap]

\* st.rebuildChecksums(): checksumToId is IdToChecksum reversed (were a MAC
\* under two ids, the order of Go's map iteration would pick the id)
rebuildChecksums(st) ==
  [st EXCEPT !.checksumToId =
     [c \in { st.IdToChecksum[id] : id \in DOMAIN st.IdToChecksum } |->
        CHOOSE id \in DOMAIN st.IdToChecksum : st.IdToChecksum[id] = c]]

\* mutant of NewFromBytes: the version read is only the first of the 4 bytes
NewFromBytesFirstByteOnly(serialized) ==
  IF Len(serialized) < 4
    THEN [err |-> "invalid state data", st |-> NoState, decoded |-> FALSE]
    ELSE IF serialized[Len(serialized) - 3] # VERSION
      THEN [err |-> "invalid state version", st |-> NoState, decoded |-> FALSE]
      ELSE LET u == Unmarshal(SubSeq(serialized, 1, Len(serialized) - 4))
           IN  IF ~u.ok
                 THEN [err |-> "msgpack", st |-> NoState, decoded |-> TRUE]
                 ELSE [err |-> "", st |-> rebuildChecksums(u.st), decoded |-> TRUE]

\* state.NewFromBytes(serialized): the error ("" for nil), the State, and
\* whether msgpack.Unmarshal was called
NewFromBytes(serialized) ==
  IF Len(serialized) < 4
    THEN [err |-> "invalid state data", st |-> NoState, decoded |-> FALSE]
    ELSE LET versionBytes == SubSeq(serialized, Len(serialized) - 3, Len(serialized))
             version      == Uint32(versionBytes)
         IN  IF version # VERSION
               THEN [err |-> "invalid state version", st |-> NoState, decoded |-> FALSE]
               ELSE LET u == Unmarshal(SubSeq(serialized, 1, Len(serialized) - 4))
                    IN  IF ~u.ok
                          THEN [err |-> "msgpack", st |-> NoState, decoded |-> TRUE]
                          ELSE [err |-> "", st |-> rebuildChecksums(u.st),
                                decoded |-> TRUE]

(* ------------------------------------------------------------------ *)
(* State of the model                                                   *)
(* ------------------------------------------------------------------ *)

VARIABLES
  states,      \* Spec: the two State values, by name
  call,        \* Spec: the last State API call and its arguments
  ret,         \* Spec: what the last call returned
  registered,  \* Spec: history, per State the first set_location call of each (kind, mac)
  nops,        \* Spec: number of calls so far
  thr,         \* SpecConc: per thread, its SetPackfileFor* call and where it stands in it
  mu,          \* SpecConc: per kind, the thread that holds mu<Kind> (0: unlocked)
  fatal,       \* SpecConc: the Go runtime stopped the process on a concurrent map access
  ncpu,        \* SpecSession: runtime.NumCPU()
  chan,        \* SpecSession: snapshot.packerChan, the buffered messages
  closed,      \* SpecSession: packerChan is closed
  prod,        \* SpecSession: the producer (scanner, then Commit): where it stands
  wk,          \* SpecSession: per packer worker, its pack, seen-sets and position
  clock,       \* SpecSession: time.Now(), one tick per packfile.New()
  packfiles,   \* SpecSession: the backend's packfile namespace, MAC -> packfile
  bstates,     \* SpecSession: the backend's state namespace, the State objects stored
  hashed,      \* SpecSession: the byte strings repository.Checksum has been given
  panicked,    \* SpecSession: a goroutine panicked, the process is gone
  failed,      \* SpecSession: history, the MACs of the packfiles whose put failed
  sent,        \* SpecSession: history, the messages enqueued so far, in order
  observed,    \* SpecSession: history, per State the messages set_location was called for
  wire,        \* SpecCodec: the bytes of a state object, and the State they were made from
  loaded,      \* SpecCodec: what the last NewFromBytes was given and what it returned
  lk,          \* SpecLocks: per State and kind, the thread that holds mu<Kind> (0: unlocked)
  mg,          \* SpecLocks: per thread, its Merge call and where it stands in it
  late,        \* SpecAbort: the call made on the session after the channel was closed
  bucket,      \* SpecStore: the objects of the S3 bucket, key -> bytes
  files,       \* SpecFs: the files under the root of the fs repository, path -> bytes
  bcall,       \* SpecFs: the Put* call of the fs repository that is under way or was last
  stored,      \* SpecStore: history, per namespace the bytes put under each MAC and not
               \* deleted since (live), and the MACs a delete took the bytes of (gone)
  ncalls,      \* SpecStore, SpecFs: number of backend calls so far
  ops,         \* SpecOrder: per thread, its State call and where it stands in it
  mutex,       \* SpecOrder: per State and mutex, the thread that holds it (0: unlocked)
  srv,         \* SpecServer: one plakard connection, its handlers and the repositories
  locate,      \* SpecLocate: one LocateSnapshotIDs call
  page         \* SpecPage: one repositorySnapshots request

apiVars == <<call, ret, registered, nops>>

concVars == <<thr, mu, fatal>>

sessVars == <<ncpu, chan, closed, prod, wk, clock, packfiles, bstates, hashed,
              panicked, failed, sent, observed>>

codecVars == <<wire, loaded>>

lockVars == <<lk, mg>>

lateVars == <<late>>

backendVars == <<bucket, files, bcall, stored, ncalls>>

orderVars == <<ops, mutex>>

appVars == <<srv, locate, page>>

vars == <<states, call, ret, registered, nops, thr, mu, fatal, ncpu, chan, closed,
          prod, wk, clock, packfiles, bstates, hashed, panicked, failed, sent,
          observed, wire, loaded, lk, mg, late, bucket, files, bcall, stored,
          ncalls, ops, mutex, srv, locate, page>>

\* history: set_location was called for (kind, mac) on the State named t
Registered(t, kind, mac) ==
  \E r \in registered[t] : r.kind = kind /\ r.mac = mac

\* history after one more set_location call: the first call of a (kind, mac) stays
Register(regs, kind, mac, pf, off, len) ==
  IF \E r \in regs : r.kind = kind /\ r.mac = mac
    THEN regs
    ELSE regs \cup {[kind |-> kind, mac |-> mac, pf |-> pf, off |-> off, len |-> len]}

\* history after the calls of one Merge: `entries` are the calls it makes
RECURSIVE RegisterAll(_, _)
RegisterAll(regs, entries) ==
  IF entries = {}
    THEN regs
    ELSE LET e == CHOOSE x \in entries : TRUE
         IN  RegisterAll(Register(regs, e.kind, e.mac, e.pf, e.off, e.len),
                         entries \ {e})

NoCall ==
  [op |-> "none", t |-> "repo", kind |-> "chunk", mac |-> ZeroMAC,
   pf |-> ZeroMAC, off |-> 0, len |-> 0, had |-> FALSE]

Threads == 1..NumThreads

\* a packfile nobody allocated yet (pack == nil)
NilPack == [live |-> FALSE, ts |-> 0, index |-> << >>]

\* a packer worker before its first message
NewWorker ==
  [pc |-> "recv", pack |-> NilPack, seen |-> [ty \in {} |-> {}], final |-> FALSE,
   packfileMAC |-> ZeroMAC, todo |-> {}, half |-> << >>]

\* no state object read or written yet
NoWire == [bytes |-> << >>, of |-> NoState]

\* NewFromBytes not called yet
NoLoad == [called |-> FALSE, input |-> << >>, of |-> NoState, err |-> "",
           st |-> NoState, decoded |-> FALSE]

\* no call was made on the session after close(packerChan)
NoLate == [op |-> "none", outcome |-> "", enqueued |-> FALSE]

\* the two namespaces of a backend
Spaces == {"states", "packfiles"}

\* no Put* call of the fs repository yet
NoBackendCall ==
  [op |-> "none", space |-> "", mac |-> << >>, data |-> << >>, pc |-> "idle",
   err |-> "", fresh |-> FALSE]

\* the threads that call the State API in SpecOrder
OrderThreads == {1, 2}

\* the mutexes of a State: muChecksum and one per kind
LockNames == {"checksum"} \cup Kinds

\* a thread that is not in a State call; code is what is left of the call, one
\* entry per mutex operation and per critical section; held is history, the
\* mutexes the thread holds in the order it acquired them
IdleOp ==
  [pc |-> "idle", op |-> "none", code |-> << >>, todo |-> {}, ranging |-> FALSE,
   held |-> << >>, calls |-> 0]

\* the MACs of the states and packfiles the served repositories hold
ServerMACs == {1, 2}

\* the repositories: the one handed to Server(), and one a client can open or
\* create by its location
RepoNames == {"main", "A"}

\* no connection yet; every repository holds state 1 and packfile 1
NoServer ==
  [pc |-> "off", NoDelete |-> FALSE, repo |-> "nil", lrepository |-> "nil",
   handlers |-> << >>, out |-> {}, tick |-> 0, crashed |-> FALSE,
   content |-> [r \in RepoNames |-> [states |-> {1}, packfiles |-> {1}]]]

\* LocateSnapshotIDs has not been called
NoLocate ==
  [pc |-> "off", opts |-> << >>, todo |-> {}, sem |-> 0, running |-> {},
   workSet |-> << >>, resultSet |-> << >>, wg |-> 0]

\* repositorySnapshots has not been requested
NoPage == [pc |-> "off", offset |-> <<0, 0>>, limit |-> <<0, 0>>, n |-> 0, items |-> << >>,
           total |-> 0, panic |-> FALSE]

\* the threads that call Merge
MergeThreads == {1}

\* a thread that is not in a Merge call; before, past and calls are history:
\* the receiving State as it was at the call, the merges that returned, and
\* the number of calls
IdleMerge ==
  [pc |-> "idle", st |-> "repo", delta |-> "delta", kind |-> 1, todo |-> {},
   cur |-> [pf |-> ZeroMAC, mac |-> ZeroMAC, off |-> 0, len |-> 0],
   before |-> NoState, past |-> {}, calls |-> 0]

\* a thread that has not called yet
IdleThread ==
  [pc |-> "idle", kind |-> "chunk", mac |-> ZeroMAC, pf |-> ZeroMAC, off |-> 0,
   len |-> 0, packfileID |-> 0, blobID |-> 0, inserted |-> FALSE, dirtied |-> FALSE]

Init ==
  /\ states = [t \in StateNames |-> New]
  /\ call = NoCall
  /\ ret = NotFound
  /\ registered = [t \in StateNames |-> {}]
  /\ nops = 0
  /\ thr = [th \in Threads |-> IdleThread]
  /\ mu = [k \in Kinds |-> 0]
  /\ fatal = FALSE
  /\ ncpu = 1
  /\ chan = << >>
  /\ closed = FALSE
  /\ prod = "scan"
  /\ wk = [w \in {1} |-> NewWorker]
  /\ clock = 1
  /\ packfiles = EmptyMap
  /\ bstates = {}
  /\ hashed = << >>
  /\ panicked = FALSE
  /\ failed = {}
  /\ sent = << >>
  /\ observed = [t \in StateNames |-> {}]
  /\ wire = NoWire
  /\ loaded = NoLoad
  /\ lk = [t \in StateNames |-> [k \in Kinds |-> 0]]
  /\ mg = [m \in MergeThreads |-> IdleMerge]
  /\ late = NoLate
  /\ bucket = EmptyMap
  /\ files = EmptyMap
  /\ bcall = NoBackendCall
  /\ stored = [space \in Spaces |-> [live |-> EmptyMap, gone |-> {}]]
  /\ ncalls = 0
  /\ ops = [th \in OrderThreads |-> IdleOp]
  /\ mutex = [t \in StateNames |-> [n \in LockNames |-> 0]]
  /\ srv = NoServer
  /\ locate = NoLocate
  /\ page = NoPage

\* st.SetPackfileFor<kind>(pf, mac, off, len) on the State named t
SetPackfile(t, kind, sp, mac) ==
  /\ nops < MaxOps
  /\ UNCHANGED <<concVars, sessVars, codecVars, lockVars, lateVars, backendVars, orderVars, appVars>>
  /\ states' = [states EXCEPT ![t] = SetPackfileFor(kind, @, sp.pf, mac, sp.off, sp.len)]
  /\ call' = [op |-> "set", t |-> t, kind |-> kind, mac |-> mac, pf |-> sp.pf,
              off |-> sp.off, len |-> sp.len, had |-> Registered(t, kind, mac)]
  /\ ret' = NotFound
  /\ registered' = [registered EXCEPT ![t] = Register(@, kind, mac, sp.pf, sp.off, sp.len)]
  /\ nops' = nops + 1

\* st.<Kind>Exists(mac)
Exists(t, kind, mac) ==
  /\ nops < MaxOps
  /\ UNCHANGED <<concVars, sessVars, codecVars, lockVars, lateVars, backendVars, orderVars, appVars>>
  /\ LET r == ExistsFor(kind, states[t], mac)
     IN  /\ states' = [states EXCEPT ![t] = r.st]
         /\ ret' = [NotFound EXCEPT !.found = r.found]
  /\ call' = [NoCall EXCEPT !.op = "exists", !.t = t, !.kind = kind, !.mac = mac,
                            !.had = Registered(t, kind, mac)]
  /\ nops' = nops + 1
  /\ UNCHANGED registered

\* st.GetSubpartFor<Kind>(mac)
GetSubpart(t, kind, mac) ==
  /\ nops < MaxOps
  /\ UNCHANGED <<concVars, sessVars, codecVars, lockVars, lateVars, backendVars, orderVars, appVars>>
  /\ LET r == GetSubpartFor(kind, states[t], mac)
     IN  /\ states' = [states EXCEPT ![t] = r.st]
         /\ ret' = r.ret
  /\ call' = [NoCall EXCEPT !.op = "subpart", !.t = t, !.kind = kind, !.mac = mac,
                            !.had = Registered(t, kind, mac)]
  /\ nops' = nops + 1
  /\ UNCHANGED registered

\* st.GetPackfileFor<Kind>(mac)
GetPackfile(t, kind, mac) ==
  /\ nops < MaxOps
  /\ UNCHANGED <<concVars, sessVars, codecVars, lockVars, lateVars, backendVars, orderVars, appVars>>
  /\ LET r == GetPackfileFor(kind, states[t], mac)
     IN  /\ states' = [states EXCEPT ![t] = r.st]
         /\ ret' = r.ret
  /\ call' = [NoCall EXCEPT !.op = "packfile", !.t = t, !.kind = kind, !.mac = mac,
                            !.had = Registered(t, kind, mac)]
  /\ nops' = nops + 1
  /\ UNCHANGED registered

\* st.ResetDirty()
DoResetDirty(t) ==
  /\ nops < MaxOps
  /\ UNCHANGED <<concVars, sessVars, codecVars, lockVars, lateVars, backendVars, orderVars, appVars>>
  /\ states' = [states EXCEPT ![t] = ResetDirty(@)]
  /\ call' = [NoCall EXCEPT !.op = "reset", !.t = t]
  /\ ret' = NotFound
  /\ nops' = nops + 1
  /\ UNCHANGED registered

\* repo.Merge(id, delta): every entry of each map of delta is registered in
\* repo through the Set method of that map's kind
DoMerge ==
  /\ nops < MaxOps
  /\ UNCHANGED <<concVars, sessVars, codecVars, lockVars, lateVars, backendVars, orderVars, appVars>>
  /\ \E s \in Merge(states["repo"], states["delta"]) :
        states' = [states EXCEPT !["repo"] = s]
  /\ call' = [NoCall EXCEPT !.op = "merge", !.t = "repo"]
  /\ ret' = NotFound
  /\ registered' = [registered EXCEPT !["repo"] = RegisterAll(@,
        UNION { { [kind |-> k, mac |-> e.mac, pf |-> e.packfile,
                   off |-> e.offset, len |-> e.length] :
                  e \in ByMAC(states["delta"], MapOf(k)) } : k \in Kinds })]
  /\ nops' = nops + 1

\* the calls of the State API on the State named t
Api(t) ==
  \/ \E kind \in Kinds, sp \in Subparts, mac \in MACs : SetPackfile(t, kind, sp, mac)
  \/ \E kind \in Kinds, mac \in MACs : Exists(t, kind, mac)
  \/ \E kind \in Kinds, mac \in MACs : GetSubpart(t, kind, mac)
  \/ \E kind \in Kinds, mac \in MACs : GetPackfile(t, kind, mac)
  \/ DoResetDirty(t)

\* Spec: one State, built from New() by calls of its API
Next == Api("repo")

Spec == Init /\ [][Next]_vars

\* SpecMerge: two States built by SetPackfileFor* calls, and repo.Merge(delta)
NextMerge ==
  \/ \E t \in StateNames, kind \in Kinds, sp \in Subparts, mac \in MACs :
        SetPackfile(t, kind, sp, mac)
  \/ DoMerge

SpecMerge == Init /\ [][NextMerge]_vars

(* ------------------------------------------------------------------ *)
(* SpecConc: SetPackfileFor* called by several threads on one State     *)
(* ------------------------------------------------------------------ *)

\* the map a SetPackfileFor<kind> tests under mu<Kind>
GuardMap(kind) == MapOf(kind)

\* the map a SetPackfileFor<kind> stores into
TargetMap(kind) ==
  IF kind \in {"file", "directory", "blob"} THEN "Objects" ELSE MapOf(kind)

\* thread th calls st.SetPackfileFor<kind>(sp.pf, mac, sp.off, sp.len);
\* packfileID := st.getOrCreateIdForChecksum(packfileChecksum)
ThreadCall(th, kind, sp, mac) ==
  /\ ~fatal
  /\ UNCHANGED <<apiVars, sessVars, codecVars, lockVars, lateVars, backendVars, orderVars, appVars>>
  /\ thr[th].pc = "idle"
  /\ states' = [states EXCEPT !["repo"] = getOrCreateIdForChecksum(@, sp.pf)]
  /\ thr' = [thr EXCEPT ![th] =
        [IdleThread EXCEPT !.pc = "intern", !.kind = kind, !.mac = mac,
                           !.pf = sp.pf, !.off = sp.off, !.len = sp.len,
                           !.packfileID = IdForChecksum(states["repo"], sp.pf)]]
  /\ UNCHANGED <<mu, fatal>>

\* <kind>ID := st.getOrCreateIdForChecksum(<kind>Checksum)
ThreadIntern(th) ==
  /\ ~fatal
  /\ UNCHANGED <<apiVars, sessVars, codecVars, lockVars, lateVars, backendVars, orderVars, appVars>>
  /\ thr[th].pc = "intern"
  /\ states' = [states EXCEPT !["repo"] = getOrCreateIdForChecksum(@, thr[th].mac)]
  /\ thr' = [thr EXCEPT ![th].pc = "lock",
                        ![th].blobID = IdForChecksum(states["repo"], thr[th].mac)]
  /\ UNCHANGED <<mu, fatal>>

\* st.mu<Kind>.Lock()
ThreadLock(th) ==
  /\ ~fatal
  /\ UNCHANGED <<apiVars, sessVars, codecVars, lockVars, lateVars, backendVars, orderVars, appVars>>
  /\ thr[th].pc = "lock"
  /\ mu[thr[th].kind] = 0
  /\ mu' = [mu EXCEPT ![thr[th].kind] = th]
  /\ thr' = [thr EXCEPT ![th].pc = "test"]
  /\ UNCHANGED <<states, fatal>>

\* if _, exists := st.<Guard>[id]; !exists
ThreadTest(th) ==
  /\ ~fatal
  /\ UNCHANGED <<apiVars, sessVars, codecVars, lockVars, lateVars, backendVars, orderVars, appVars>>
  /\ thr[th].pc = "test"
  /\ thr' = [thr EXCEPT ![th].pc =
        IF thr[th].blobID \in DOMAIN states["repo"][GuardMap(thr[th].kind)]
          THEN "unlock" ELSE "store"]
  /\ UNCHANGED <<states, mu, fatal>>

\* st.<Target>[id] = Location{...}
ThreadStore(th) ==
  /\ ~fatal
  /\ UNCHANGED <<apiVars, sessVars, codecVars, lockVars, lateVars, backendVars, orderVars, appVars>>
  /\ thr[th].pc = "store"
  /\ states' = [states EXCEPT !["repo"][TargetMap(thr[th].kind)] =
        MapPut(@, thr[th].blobID,
               Location(thr[th].packfileID, thr[th].off, thr[th].len))]
  /\ thr' = [thr EXCEPT ![th].pc = "dirty", ![th].inserted = TRUE]
  /\ UNCHANGED <<mu, fatal>>

\* two threads are in an access of the same Go map at once, one of them storing,
\* under different mutexes: the runtime may stop the process ("concurrent map
\* writes", "concurrent map read and map write")
ThreadRace(th) ==
  /\ ~fatal
  /\ UNCHANGED <<apiVars, sessVars, codecVars, lockVars, lateVars, backendVars, orderVars, appVars>>
  /\ thr[th].pc = "store"
  /\ \E other \in Threads \ {th} :
        \/ /\ thr[other].pc = "store"
           /\ TargetMap(thr[other].kind) = TargetMap(thr[th].kind)
        \/ /\ thr[other].pc = "test"
           /\ GuardMap(thr[other].kind) = TargetMap(thr[th].kind)
  /\ fatal' = TRUE
  /\ UNCHANGED <<states, thr, mu>>

\* atomic.StoreInt32(&st.dirty, 1)
ThreadDirty(th) ==
  /\ ~fatal
  /\ UNCHANGED <<apiVars, sessVars, codecVars, lockVars, lateVars, backendVars, orderVars, appVars>>
  /\ thr[th].pc = "dirty"
  /\ states' = [states EXCEPT !["repo"].dirty = 1]
  /\ thr' = [thr EXCEPT ![th].pc = "unlock", ![th].dirtied = TRUE]
  /\ UNCHANGED <<mu, fatal>>

\* defer st.mu<Kind>.Unlock()
ThreadUnlock(th) ==
  /\ ~fatal
  /\ UNCHANGED <<apiVars, sessVars, codecVars, lockVars, lateVars, backendVars, orderVars, appVars>>
  /\ thr[th].pc = "unlock"
  /\ mu' = [mu EXCEPT ![thr[th].kind] = 0]
  /\ thr' = [thr EXCEPT ![th].pc = "done"]
  /\ UNCHANGED <<states, fatal>>

NextConc ==
  \E th \in Threads :
    \/ \E kind \in Kinds, sp \in Subparts, mac \in MACs : ThreadCall(th, kind, sp, mac)
    \/ ThreadIntern(th)
    \/ ThreadLock(th)
    \/ ThreadTest(th)
    \/ ThreadStore(th)
    \/ ThreadRace(th)
    \/ ThreadDirty(th)
    \/ ThreadUnlock(th)

SpecConc == Init /\ [][NextConc]_vars

(* ------------------------------------------------------------------ *)
(* packfile: the in-memory builder (modelled from the specification)    *)
(* ------------------------------------------------------------------ *)

\* bytes of one index entry: type:u8, mac:32, offset:u32, length:u32
IndexEntryLen == 41

\* bytes of the footer: version:u32, timestamp:i64, index_offset:u64,
\* index_length:u32, entry_count:u32
FooterLen == 28

\* repo.Configuration().PackfileSize
PackfileSize == 250

RECURSIVE SumLengths(_)
SumLengths(index) ==
  IF index = << >> THEN 0 ELSE Head(index).length + SumLengths(Tail(index))

\* len(pack.Data)
DataLength(pack) == SumLengths(pack.index)

\* packfile.New(): an empty builder, stamped with the current time
PackfileNew(now) == [live |-> TRUE, ts |-> now, index |-> << >>]

\* pack.AddBlob(type, checksum, data): the payload is appended to the data area
\* and an index entry records where it starts; seq is history (which message)
AddBlob(pack, msg) ==
  [pack EXCEPT !.index = Append(@,
     [type |-> msg.type, mac |-> msg.mac, offset |-> DataLength(pack),
      length |-> msg.len, seq |-> msg.seq])]

\* pack.Size(): the serialized size, index and footer included
Size(pack) == DataLength(pack) + IndexEntryLen * Len(pack.index) + FooterLen

(* ------------------------------------------------------------------ *)
(* snapshot: the session                                                *)
(* ------------------------------------------------------------------ *)

\* the blobs the producer puts: type, MAC, length of the sealed payload
PutBlobs ==
  { [type |-> "chunk",     mac |-> 1, len |-> 100],
    [type |-> "chunk",     mac |-> 2, len |-> 200],
    [type |-> "object",    mac |-> 1, len |-> 100],
    [type |-> "file",      mac |-> 2, len |-> 100],
    [type |-> "directory", mac |-> 3, len |-> 100],
    [type |-> "data",      mac |-> 3, len |-> 100] }

\* snapshot.Header.IndexID and the serialized header
HeaderBlob == [type |-> "snapshot", mac |-> 9, len |-> 100]

\* a packfile another session stored before, and the chunk it holds
OldPackfileMAC == 50

OldPackfile ==
  [live |-> TRUE, ts |-> 0,
   index |-> << [type |-> "chunk", mac |-> 1, offset |-> 0, length |-> 100, seq |-> 0] >>]

Workers == 1..ncpu

\* cap(snapshot.packerChan)
ChanCapacity == ncpu * 2 + 1

\* SetPackfileForData: not in state.go; the specification's set_location of the
\* blob/data kind
SetPackfileForData(st, packfileChecksum, dataChecksum, packfileOffset, chunkLength) ==
  SetPackfileIn(st, "Blobs", "Blobs", packfileChecksum, dataChecksum,
                packfileOffset, chunkLength)

\* SetPackfileForSnapshot: not in state.go; the specification's set_location of
\* the snapshot kind
SetPackfileForSnapshot(st, packfileChecksum, snapshotID, packfileOffset, chunkLength) ==
  SetPackfileIn(st, "Snapshots", "Snapshots", packfileChecksum, snapshotID,
                packfileOffset, chunkLength)

\* the State method PutPackfile calls for the blobs of one list
SetPackfileForType(type, st, packfileChecksum, checksum, offset, length) ==
  CASE type = "chunk"     -> SetPackfileForChunk(st, packfileChecksum, checksum, offset, length)
    [] type = "object"    -> SetPackfileForObject(st, packfileChecksum, checksum, offset, length)
    [] type = "file"      -> SetPackfileForFile(st, packfileChecksum, checksum, offset, length)
    [] type = "directory" -> SetPackfileForDirectory(st, packfileChecksum, checksum, offset, length)
    [] type = "data"      -> SetPackfileForData(st, packfileChecksum, checksum, offset, length)
    [] type = "snapshot"  -> SetPackfileForSnapshot(st, packfileChecksum, checksum, offset, length)

\* the map of the specification for a blob type
MapOfType(type) == IF type = "data" THEN "Blobs" ELSE MapOf(type)

\* the position of a type's list in PutPackfile's registration loops
TypeRank(type) ==
  CASE type = "chunk"     -> 1
    [] type = "object"    -> 2
    [] type = "file"      -> 3
    [] type = "directory" -> 4
    [] type = "data"      -> 5
    [] type = "snapshot"  -> 6

\* the list a worker builds from one seen-set: make([][32]byte, len(set))
\* followed by the appends, so len(set) all-zero MACs and then the set
ListOf(set) == IF set = {} THEN {} ELSE {ZeroMAC} \cup set

\* mutant of FirstIndexOf: the search stops at the first index entry whatever
\* its checksum
FirstIndexOfAny(pack, checksum) == IF pack.index = << >> THEN 0 ELSE 1

\* for idx, chunk := range pack.Index { if chunk.Checksum == checksum ... break }
\* the first index entry with this checksum, 0 when there is none
FirstIndexOf(pack, checksum) ==
  IF \E i \in 1..Len(pack.index) : pack.index[i].mac = checksum
    THEN CHOOSE i \in 1..Len(pack.index) :
           /\ pack.index[i].mac = checksum
           /\ \A j \in 1..(i - 1) : pack.index[j].mac # checksum
    ELSE 0

\* the (type, checksum) pairs of the six lists for which PutPackfile's search of
\* pack.Index finds an entry: the set_location calls of one flush
Registrations(pack, seen) ==
  { <<ty, c>> \in PackTypes \X (0..9) :
      c \in ListOf(seen[ty]) /\ FirstIndexOf(pack, c) # 0 }

\* repository.Checksum of a serialized packfile: equal byte strings have equal
\* MACs and different ones different MACs
Checksum(table, bytes) ==
  IF \E i \in 1..Len(table) : table[i] = bytes
    THEN 100 + (CHOOSE i \in 1..Len(table) : table[i] = bytes)
    ELSE 100 + Len(table) + 1

Hashed(table, bytes) ==
  IF \E i \in 1..Len(table) : table[i] = bytes THEN table ELSE Append(table, bytes)

\* mutant of AllWorkersExited: the done latch is signalled without wg.Wait()
AllWorkersExitedNoWait == TRUE

\* wg.Wait() returns: every worker goroutine has returned
AllWorkersExited == \A w \in Workers : wk[w].pc = "exited"

\* a session opened by snapshot.New on a repository that holds one packfile
\* with one chunk, stored by an earlier session
InitSession ==
  /\ call = NoCall
  /\ ret = NotFound
  /\ registered = [t \in StateNames |-> {}]
  /\ nops = 0
  /\ thr = [th \in Threads |-> IdleThread]
  /\ mu = [k \in Kinds |-> 0]
  /\ fatal = FALSE
  /\ ncpu \in CPUs
  /\ chan = << >>
  /\ closed = FALSE
  /\ prod = "scan"
  /\ wk = [w \in 1..ncpu |-> NewWorker]
  /\ clock = 1
  /\ states = [repo  |-> SetPackfileForChunk(New, OldPackfileMAC, 1, 0, 100),
               delta |-> New]
  /\ packfiles = MapPut(EmptyMap, OldPackfileMAC, OldPackfile)
  /\ bstates = {}
  /\ hashed = << >>
  /\ panicked = FALSE
  /\ failed = {}
  /\ sent = << >>
  /\ observed = [t \in StateNames |-> {}]
  /\ wire = NoWire
  /\ loaded = NoLoad
  /\ lk = [t \in StateNames |-> [k \in Kinds |-> 0]]
  /\ mg = [m \in MergeThreads |-> IdleMerge]
  /\ late = NoLate
  /\ bucket = EmptyMap
  /\ files = EmptyMap
  /\ bcall = NoBackendCall
  /\ stored = [space \in Spaces |-> [live |-> EmptyMap, gone |-> {}]]
  /\ ncalls = 0
  /\ ops = [th \in OrderThreads |-> IdleOp]
  /\ mutex = [t \in StateNames |-> [n \in LockNames |-> 0]]
  /\ srv = NoServer
  /\ locate = NoLocate
  /\ page = NoPage

Running == ~panicked

\* snap.packerChan <- &PackerMsg{...}: the send of one Put* call
Enqueue(blob) ==
  LET msg == [type |-> blob.type, mac |-> blob.mac, len |-> blob.len,
              seq |-> Len(sent) + 1]
  IN  /\ chan' = Append(chan, msg)
      /\ sent' = Append(sent, msg)

\* PutChunk, PutObject, PutFile, PutDirectory, PutData: encode and enqueue; the
\* send blocks while the channel is full
Put(blob) ==
  /\ Running
  /\ prod = "scan"
  /\ Len(sent) < MaxPuts
  /\ ~closed
  /\ Len(chan) < ChanCapacity
  /\ Enqueue(blob)
  /\ UNCHANGED <<states, apiVars, concVars, codecVars, lockVars, lateVars, backendVars, orderVars, ncpu, closed, prod, wk, clock, packfiles,
                 bstates, hashed, panicked, failed, observed, appVars>>

\* Commit: snapshot.Header.Serialize() and PutHeader succeed, the header is
\* enqueued
CommitPutHeader ==
  /\ Running
  /\ prod = "scan"
  /\ ~closed
  /\ Len(chan) < ChanCapacity
  /\ Enqueue(HeaderBlob)
  /\ prod' = "close"
  /\ UNCHANGED <<states, apiVars, concVars, codecVars, lockVars, lateVars, backendVars, orderVars, ncpu, closed, wk, clock, packfiles,
                 bstates, hashed, panicked, failed, observed, appVars>>

\* Commit: snapshot.Header.Serialize() or the header's Encode fails, Commit
\* returns the error
CommitHeaderError ==
  /\ Running
  /\ prod = "scan"
  /\ prod' = "error"
  /\ UNCHANGED <<states, apiVars, concVars, codecVars, lockVars, lateVars, backendVars, orderVars, ncpu, chan, closed, wk, clock, packfiles,
                 bstates, hashed, panicked, failed, sent, observed, appVars>>

\* mutant of CommitClose: Commit waits for the done latch without closing the
\* channel
CommitCloseLeftOut ==
  /\ Running
  /\ prod = "close"
  /\ prod' = "wait"
  /\ UNCHANGED <<states, apiVars, concVars, codecVars, lockVars, lateVars, backendVars,
                 orderVars, ncpu, chan, closed, wk, clock, packfiles, bstates, hashed,
                 panicked, failed, sent, observed, appVars>>

\* Commit: close(snapshot.packerChan)
CommitClose ==
  /\ Running
  /\ prod = "close"
  /\ closed' = TRUE
  /\ prod' = "wait"
  /\ UNCHANGED <<states, apiVars, concVars, codecVars, lockVars, lateVars, backendVars, orderVars, ncpu, chan, wk, clock, packfiles,
                 bstates, hashed, panicked, failed, sent, observed, appVars>>

\* wg.Wait() returned and snapshot.packerChanDone <- true meets Commit's
\* <-snapshot.packerChanDone
DoneLatch ==
  /\ Running
  /\ prod = "wait"
  /\ AllWorkersExited
  /\ prod' = "latched"
  /\ UNCHANGED <<states, apiVars, concVars, codecVars, lockVars, lateVars, backendVars, orderVars, ncpu, chan, closed, wk, clock, packfiles,
                 bstates, hashed, panicked, failed, sent, observed, appVars>>

\* Commit: stateDelta.Serialize(), repo.PutState succeed, Commit returns nil
CommitPutState ==
  /\ Running
  /\ prod = "latched"
  /\ bstates' = bstates \cup {states["delta"]}
  /\ prod' = "committed"
  /\ UNCHANGED <<states, apiVars, concVars, codecVars, lockVars, lateVars, backendVars, orderVars, ncpu, chan, closed, wk, clock, packfiles,
                 hashed, panicked, failed, sent, observed, appVars>>

\* Commit: stateDelta.Serialize() or repo.PutState fails, Commit returns the error
CommitPutStateError ==
  /\ Running
  /\ prod = "latched"
  /\ prod' = "error"
  /\ UNCHANGED <<states, apiVars, concVars, codecVars, lockVars, lateVars, backendVars, orderVars, ncpu, chan, closed, wk, clock, packfiles,
                 bstates, hashed, panicked, failed, sent, observed, appVars>>

\* mutant of AfterFlush: pack = nil is left out, the worker goes on with the
\* pack it has just written
AfterFlushKeepsPack(worker) ==
  [worker EXCEPT !.pc = IF worker.final THEN "exited" ELSE "recv",
                 !.todo = {}, !.half = << >>]

\* where a worker goes once PutPackfile returned
AfterFlush(worker) ==
  [worker EXCEPT !.pc = IF worker.final THEN "exited" ELSE "recv",
                 !.pack = NilPack, !.todo = {}, !.half = << >>]

\* mutant of WorkerReceive: the size of the pack is never tested against the
\* configured packfile size, the worker keeps adding to the same pack
WorkerReceiveNoThreshold(w) ==
  /\ Running
  /\ wk[w].pc = "recv"
  /\ chan # << >>
  /\ LET msg    == Head(chan)
         fresh  == ~wk[w].pack.live
         pack0  == IF fresh THEN PackfileNew(clock) ELSE wk[w].pack
         seen0  == IF fresh THEN [ty \in PackTypes |-> {}] ELSE wk[w].seen
     IN  /\ wk' = [wk EXCEPT ![w].pack = AddBlob(pack0, msg),
                             ![w].seen = [seen0 EXCEPT ![msg.type] = @ \cup {msg.mac}]]
         /\ clock' = IF fresh THEN clock + 1 ELSE clock
  /\ chan' = Tail(chan)
  /\ UNCHANGED <<states, apiVars, concVars, codecVars, lockVars, lateVars, backendVars, orderVars, ncpu, closed, prod, packfiles, bstates,
                 hashed, panicked, failed, sent, observed, appVars>>

\* one round of the worker loop: receive a message, allocate the pack and the
\* seen-sets when there is no pack, AddBlob, record the MAC in the seen-set of
\* its type, and test pack.Size() against the configured packfile size
WorkerReceive(w) ==
  /\ Running
  /\ wk[w].pc = "recv"
  /\ chan # << >>
  /\ LET msg    == Head(chan)
         fresh  == ~wk[w].pack.live
         pack0  == IF fresh THEN PackfileNew(clock) ELSE wk[w].pack
         seen0  == IF fresh THEN [ty \in PackTypes |-> {}] ELSE wk[w].seen
         pack1  == AddBlob(pack0, msg)
         seen1  == [seen0 EXCEPT ![msg.type] = @ \cup {msg.mac}]
     IN  /\ wk' = [wk EXCEPT ![w].pack = pack1, ![w].seen = seen1,
                             ![w].pc = IF Size(pack1) > PackfileSize
                                         THEN "flush" ELSE "recv"]
         /\ clock' = IF fresh THEN clock + 1 ELSE clock
  /\ chan' = Tail(chan)
  /\ UNCHANGED <<states, apiVars, concVars, codecVars, lockVars, lateVars, backendVars, orderVars, ncpu, closed, prod, packfiles, bstates,
                 hashed, panicked, failed, sent, observed, appVars>>

\* mutant of WorkerDrained: the worker returns without the flush of its pack
WorkerDrainedNoFlush(w) ==
  /\ Running
  /\ wk[w].pc = "recv"
  /\ chan = << >>
  /\ closed
  /\ wk' = [wk EXCEPT ![w].pc = "exited", ![w].final = TRUE]
  /\ UNCHANGED <<states, apiVars, concVars, codecVars, lockVars, lateVars, backendVars, orderVars, ncpu, chan, closed, prod, clock, packfiles,
                 bstates, hashed, panicked, failed, sent, observed, appVars>>

\* the range over the closed and drained channel ends: a worker with a pack
\* flushes it, a worker without returns
WorkerDrained(w) ==
  /\ Running
  /\ wk[w].pc = "recv"
  /\ chan = << >>
  /\ closed
  /\ wk' = [wk EXCEPT ![w].pc = IF wk[w].pack.live THEN "flush" ELSE "exited",
                      ![w].final = TRUE]
  /\ UNCHANGED <<states, apiVars, concVars, codecVars, lockVars, lateVars, backendVars, orderVars, ncpu, chan, closed, prod, clock, packfiles,
                 bstates, hashed, panicked, failed, sent, observed, appVars>>

\* PutPackfile up to the backend write: the packfile is serialized, its MAC is
\* the checksum of the bytes, repository.PutPackfile stores it
WorkerPutPackfile(w) ==
  /\ Running
  /\ wk[w].pc = "flush"
  /\ LET checksum32 == Checksum(hashed, wk[w].pack)
         todo       == Registrations(wk[w].pack, wk[w].seen)
     IN  /\ packfiles' = MapPut(packfiles, checksum32, wk[w].pack)
         /\ hashed' = Hashed(hashed, wk[w].pack)
         /\ wk' = [wk EXCEPT ![w] =
               IF todo = {}
                 THEN AfterFlush(wk[w])
                 ELSE [wk[w] EXCEPT !.pc = "register", !.packfileMAC = checksum32,
                                    !.todo = todo]]
  /\ UNCHANGED <<states, apiVars, concVars, codecVars, lockVars, lateVars, backendVars, orderVars, ncpu, chan, closed, prod, clock, bstates,
                 panicked, failed, sent, observed, appVars>>

\* mutant of WorkerPutPackfileError: the error of the backend write is dropped
\* and PutPackfile goes on to register the blobs
WorkerPutPackfileErrorDropped(w) ==
  /\ Running
  /\ wk[w].pc = "flush"
  /\ failed' = failed \cup {Checksum(hashed, wk[w].pack)}
  /\ hashed' = Hashed(hashed, wk[w].pack)
  /\ wk' = [wk EXCEPT ![w].pc = "register",
                      ![w].packfileMAC = Checksum(hashed, wk[w].pack),
                      ![w].todo = Registrations(wk[w].pack, wk[w].seen)]
  /\ UNCHANGED <<states, apiVars, concVars, codecVars, lockVars, lateVars, backendVars, orderVars, ncpu, chan, closed, prod, clock,
                 packfiles, bstates, panicked, sent, observed, appVars>>

\* PutPackfile fails: an Encode error is returned and the worker panics on it,
\* a failed repository.PutPackfile panics in PutPackfile itself
WorkerPutPackfileError(w) ==
  /\ Running
  /\ wk[w].pc = "flush"
  /\ panicked' = TRUE
  /\ failed' = failed \cup {Checksum(hashed, wk[w].pack)}
  /\ hashed' = Hashed(hashed, wk[w].pack)
  /\ UNCHANGED <<states, apiVars, concVars, codecVars, lockVars, lateVars, backendVars, orderVars, ncpu, chan, closed, prod, wk, clock,
                 packfiles, bstates, sent, observed, appVars>>

\* the blobs of the earliest list that still has some: the loops run over
\* chunks, objects, files, directories, datas, snapshots in this order
NextRegistrations(todo) ==
  { e \in todo : \A o \in todo : TypeRank(e[1]) <= TypeRank(o[1]) }

\* the history of one set_location call: the messages of this pack it stands for
ObservedBy(pack, e) ==
  { pack.index[i].seq : i \in { j \in 1..Len(pack.index) :
        pack.index[j].type = e[1] /\ pack.index[j].mac = e[2] } }

\* mutant of WorkerRegisterRepo: the call on the shared state is left out
WorkerRegisterRepoSkipped(w) ==
  /\ Running
  /\ wk[w].pc = "register"
  /\ wk[w].half = << >>
  /\ \E e \in NextRegistrations(wk[w].todo) : wk' = [wk EXCEPT ![w].half = e]
  /\ UNCHANGED <<states, apiVars, concVars, codecVars, lockVars, lateVars, backendVars,
                 orderVars, ncpu, chan, closed, prod, clock, packfiles, bstates,
                 hashed, panicked, failed, sent, observed, appVars>>

\* PutPackfile, one blob of one list: snap.Repository().State().SetPackfileFor<Type>
WorkerRegisterRepo(w) ==
  /\ Running
  /\ wk[w].pc = "register"
  /\ wk[w].half = << >>
  /\ \E e \in NextRegistrations(wk[w].todo) :
       LET idx == FirstIndexOf(wk[w].pack, e[2])
       IN  /\ states' = [states EXCEPT !["repo"] =
                 SetPackfileForType(e[1], @, wk[w].packfileMAC, e[2],
                                    wk[w].pack.index[idx].offset,
                                    wk[w].pack.index[idx].length)]
           /\ wk' = [wk EXCEPT ![w].half = e]
           /\ observed' = [observed EXCEPT !["repo"] = @ \cup ObservedBy(wk[w].pack, e)]
  /\ UNCHANGED <<apiVars, concVars, codecVars, lockVars, lateVars, backendVars, orderVars, ncpu, chan, closed, prod, clock, packfiles, bstates,
                 hashed, panicked, failed, sent, appVars>>

\* PutPackfile, the same blob: snap.stateDelta.SetPackfileFor<Type>; after the
\* last blob PutPackfile returns and the worker sets pack = nil
WorkerRegisterDelta(w) ==
  /\ Running
  /\ wk[w].pc = "register"
  /\ wk[w].half # << >>
  /\ LET e    == wk[w].half
         idx  == FirstIndexOf(wk[w].pack, e[2])
         rest == wk[w].todo \ {e}
     IN  /\ states' = [states EXCEPT !["delta"] =
               SetPackfileForType(e[1], @, wk[w].packfileMAC, e[2],
                                  wk[w].pack.index[idx].offset,
                                  wk[w].pack.index[idx].length)]
         /\ wk' = [wk EXCEPT ![w] =
               IF rest = {}
                 THEN AfterFlush(wk[w])
                 ELSE [wk[w] EXCEPT !.todo = rest, !.half = << >>]]
         /\ observed' = [observed EXCEPT !["delta"] = @ \cup ObservedBy(wk[w].pack, e)]
  /\ UNCHANGED <<apiVars, concVars, codecVars, lockVars, lateVars, backendVars, orderVars, ncpu, chan, closed, prod, clock, packfiles, bstates,
                 hashed, panicked, failed, sent, appVars>>

NextSession ==
  \/ \E blob \in PutBlobs : Put(blob)
  \/ CommitPutHeader
  \/ CommitHeaderError
  \/ CommitClose
  \/ DoneLatch
  \/ CommitPutState
  \/ CommitPutStateError
  \/ \E w \in Workers : WorkerReceive(w)
  \/ \E w \in Workers : WorkerDrained(w)
  \/ \E w \in Workers : WorkerPutPackfile(w)
  \/ \E w \in Workers : WorkerPutPackfileError(w)
  \/ \E w \in Workers : WorkerRegisterRepo(w)
  \/ \E w \in Workers : WorkerRegisterDelta(w)

SpecSession == InitSession /\ [][NextSession]_vars

(* ------------------------------------------------------------------ *)
(* The packer pool on its own: chunks of one size, then the channel is  *)
(* closed with nothing else enqueued                                    *)
(* ------------------------------------------------------------------ *)

\* how many chunks the producer may put
MaxChunks == 3

\* len(encoded) of the chunks of one run
ChunkSizes == {100, 150, 200}

\* a pool of two workers, as InitSession builds it
InitPacker == InitSession /\ ncpu = 2

\* PutChunk(checksum, data): the i-th chunk has MAC i; every chunk of a run has
\* the length of the first
PackerPutChunk(len) ==
  /\ Running
  /\ prod = "scan"
  /\ Len(sent) < MaxChunks
  /\ sent # << >> => len = sent[1].len
  /\ ~closed
  /\ Len(chan) < ChanCapacity
  /\ Enqueue([type |-> "chunk", mac |-> Len(sent) + 1, len |-> len])
  /\ UNCHANGED <<states, apiVars, concVars, codecVars, lockVars, lateVars, backendVars, orderVars, ncpu, closed, prod, wk, clock, packfiles,
                 bstates, hashed, panicked, failed, observed, appVars>>

\* close(snapshot.packerChan) once the chunks are in the channel; the producer
\* then waits on packerChanDone
PackerClose ==
  /\ Running
  /\ prod = "scan"
  /\ sent # << >>
  /\ closed' = TRUE
  /\ prod' = "wait"
  /\ UNCHANGED <<states, apiVars, concVars, codecVars, lockVars, lateVars, backendVars, orderVars, ncpu, chan, wk, clock, packfiles,
                 bstates, hashed, panicked, failed, sent, observed, appVars>>

NextPacker ==
  \/ \E len \in ChunkSizes : PackerPutChunk(len)
  \/ PackerClose
  \/ DoneLatch
  \/ \E w \in Workers : WorkerReceive(w)
  \/ \E w \in Workers : WorkerDrained(w)
  \/ \E w \in Workers : WorkerPutPackfile(w)
  \/ \E w \in Workers : WorkerPutPackfileError(w)
  \/ \E w \in Workers : WorkerRegisterRepo(w)
  \/ \E w \in Workers : WorkerRegisterDelta(w)

SpecPacker == InitPacker /\ [][NextPacker]_vars

(* ------------------------------------------------------------------ *)
(* States written to and read from state objects                        *)
(* ------------------------------------------------------------------ *)

\* state ids a State is made to extend
StateIDs == {21, 22}

\* a State another writer serialized: one file, registered under Files
ForeignState ==
  [New EXCEPT !.IdToChecksum = MapPut(MapPut(EmptyMap, 0, 11), 1, 1),
              !.checksumToId = MapPut(MapPut(EmptyMap, 11, 0), 1, 1),
              !.Files = MapPut(EmptyMap, 1, Location(0, 0, 4))]

\* a damaged State: the one entry of Chunks has a key and a Packfile id that
\* IdToChecksum does not hold
DanglingState ==
  [New EXCEPT !.IdToChecksum = MapPut(EmptyMap, 0, 11),
              !.checksumToId = MapPut(EmptyMap, 11, 0),
              !.Chunks = MapPut(EmptyMap, 5, Location(7, 0, 4))]

\* the bytes of the state objects a repository may hand to NewFromBytes
\* besides those this program wrote: a foreign State, a damaged one, and
\* short or cut objects
StateFiles ==
  { Serialize(ForeignState, TRUE),
    Serialize(DanglingState, TRUE),
    << >>, <<100>>, <<100, 0, 0>>, <<100, 0, 0, 0>>, <<7, 100, 0, 0, 0>> }

\* versions other than VERSION found in the last 4 bytes of a state object
OtherVersions == {99, 356}

\* how many SetPackfileFor* and Extends calls build the States before they are
\* serialized or merged
MaxBuildOps == 2

\* the State repo is still being built: no state object was written or read
Building ==
  /\ nops < MaxBuildOps
  /\ wire = NoWire
  /\ ~loaded.called
  /\ states["delta"] = New

\* SetPackfileFor<Kind> on the State that is being built
BuildSetPackfile(kind, sp, mac) == Building /\ SetPackfile("repo", kind, sp, mac)

\* st.Extends(stateID) on the State named t
DoExtends(t, stateID) ==
  /\ Building
  /\ nops < MaxOps
  /\ states' = [states EXCEPT ![t] = Extends(@, stateID)]
  /\ call' = [NoCall EXCEPT !.op = "extends", !.t = t]
  /\ ret' = NotFound
  /\ nops' = nops + 1
  /\ UNCHANGED <<registered, concVars, sessVars, codecVars, lockVars, lateVars, backendVars, orderVars, appVars>>

\* st.Serialize() on the State named t
DoSerialize(t, asc) ==
  /\ ~loaded.called
  /\ wire' = [bytes |-> Serialize(states[t], asc), of |-> states[t]]
  /\ UNCHANGED <<states, apiVars, concVars, sessVars, lockVars, lateVars, backendVars, orderVars, loaded, appVars>>

\* a state object read from the repository that this run did not write
ReadStateFile(bytes) ==
  /\ ~loaded.called
  /\ states["delta"] = New
  /\ wire' = [bytes |-> bytes, of |-> NoState]
  /\ UNCHANGED <<states, apiVars, concVars, sessVars, lockVars, lateVars, backendVars, orderVars, loaded, appVars>>

\* the state object at hand carries another version in its last 4 bytes
OtherVersion(v) ==
  /\ ~loaded.called
  /\ states["delta"] = New
  /\ Len(wire.bytes) >= 4
  /\ wire' = [bytes |-> SubSeq(wire.bytes, 1, Len(wire.bytes) - 4) \o PutUint32(v),
               of |-> NoState]
  /\ UNCHANGED <<states, apiVars, concVars, sessVars, lockVars, lateVars, backendVars, orderVars, loaded, appVars>>

\* state.NewFromBytes on the state object at hand
DoNewFromBytes ==
  /\ wire # NoWire
  /\ LET r == NewFromBytes(wire.bytes)
     IN  loaded' = [called |-> TRUE, input |-> wire.bytes, of |-> wire.of,
                    err |-> r.err, st |-> r.st, decoded |-> r.decoded]
  /\ wire' = NoWire
  /\ UNCHANGED <<states, apiVars, concVars, sessVars, lockVars, lateVars, backendVars, orderVars, appVars>>

\* the State NewFromBytes returned becomes the delta that is merged
LoadDelta ==
  /\ loaded.called
  /\ loaded.err = ""
  /\ states' = [states EXCEPT !["delta"] = loaded.st]
  /\ loaded' = NoLoad
  /\ UNCHANGED <<apiVars, concVars, sessVars, lockVars, lateVars, backendVars, orderVars, wire, appVars>>

NextCodec ==
  \/ \E kind \in Kinds, sp \in Subparts, mac \in MACs : BuildSetPackfile(kind, sp, mac)
  \/ \E stateID \in StateIDs : DoExtends("repo", stateID)
  \/ DoMerge
  \/ \E asc \in BOOLEAN : DoSerialize("repo", asc)
  \/ \E bytes \in StateFiles : ReadStateFile(bytes)
  \/ \E v \in OtherVersions : OtherVersion(v)
  \/ DoNewFromBytes
  \/ LoadDelta

SpecCodec == Init /\ [][NextCodec]_vars

(* ------------------------------------------------------------------ *)
(* Merge, lock by lock                                                  *)
(* ------------------------------------------------------------------ *)

\* how many Merge calls a thread makes
MaxMerges == 2

\* the order in which Merge walks the maps of deltaState
KindOrder == <<"chunk", "object", "file", "directory", "blob">>

\* no Merge call has been made yet
NoMergeYet == \A m \in MergeThreads : mg[m].pc = "idle" /\ mg[m].calls = 0

\* SetPackfileFor<Kind> on one of the two States before any Merge
LocksSetPackfile(t, kind, sp, mac) ==
  /\ NoMergeYet
  /\ nops < MaxBuildOps
  /\ SetPackfile(t, kind, sp, mac)

\* st.ResetDirty() between two Merge calls
LocksResetDirty(t) ==
  /\ \A m \in MergeThreads : mg[m].pc = "idle"
  /\ \E m \in MergeThreads : mg[m].calls > 0
  /\ states[t].dirty = 1
  /\ DoResetDirty(t)

\* thread m calls st.Merge(stateID, deltaState)
MergeCall(m, st, delta) ==
  /\ mg[m].pc = "idle"
  /\ mg[m].calls < MaxMerges
  /\ mg' = [mg EXCEPT ![m].pc = "lockdelta", ![m].st = st, ![m].delta = delta,
                      ![m].kind = 1, ![m].before = states[st],
                      ![m].calls = @ + 1]
  /\ UNCHANGED <<states, apiVars, concVars, sessVars, codecVars, lateVars, backendVars, orderVars, lk, appVars>>

\* deltaState.mu<Kind>.Lock(), and the range over deltaState.<Kind> begins
MergeLockDelta(m) ==
  /\ mg[m].pc = "lockdelta"
  /\ lk[mg[m].delta][KindOrder[mg[m].kind]] = 0
  /\ lk' = [lk EXCEPT ![mg[m].delta][KindOrder[mg[m].kind]] = m]
  /\ mg' = [mg EXCEPT ![m].pc = "range",
                      ![m].todo = DOMAIN states[mg[m].delta][MapOf(KindOrder[mg[m].kind])]]
  /\ UNCHANGED <<states, apiVars, concVars, sessVars, codecVars, lateVars, backendVars, orderVars, appVars>>

\* one round of the range: the entry's ids are translated through
\* deltaState.IdToChecksum, st.SetPackfileFor<Kind> is called and interns the
\* two checksums; after the last entry the range ends
MergeRange(m) ==
  /\ mg[m].pc = "range"
  /\ IF mg[m].todo = {}
       THEN /\ mg' = [mg EXCEPT ![m].pc = "unlockdelta"]
            /\ UNCHANGED states
       ELSE \E id \in mg[m].todo :
              LET d       == states[mg[m].delta]
                  subpart == d[MapOf(KindOrder[mg[m].kind])][id]
                  pf      == ChecksumOfId(d, subpart.Packfile)
                  mac     == ChecksumOfId(d, id)
              IN  /\ states' = [states EXCEPT ![mg[m].st] =
                        getOrCreateIdForChecksum(getOrCreateIdForChecksum(@, pf), mac)]
                  /\ mg' = [mg EXCEPT ![m].pc = "setlock", ![m].todo = @ \ {id},
                                      ![m].cur = [pf |-> pf, mac |-> mac,
                                                  off |-> subpart.Offset,
                                                  len |-> subpart.Length]]
  /\ UNCHANGED <<apiVars, concVars, sessVars, codecVars, lateVars, backendVars, orderVars, lk, appVars>>

\* in st.SetPackfileFor<Kind>: st.mu<Kind>.Lock(); a sync.Mutex is not
\* reentrant, the thread waits also when it holds the mutex itself
MergeSetLock(m) ==
  /\ mg[m].pc = "setlock"
  /\ lk[mg[m].st][KindOrder[mg[m].kind]] = 0
  /\ lk' = [lk EXCEPT ![mg[m].st][KindOrder[mg[m].kind]] = m]
  /\ mg' = [mg EXCEPT ![m].pc = "setbody"]
  /\ UNCHANGED <<states, apiVars, concVars, sessVars, codecVars, lateVars, backendVars, orderVars, appVars>>

\* in st.SetPackfileFor<Kind>: the test, the store, the dirty flag and the
\* deferred Unlock
MergeSetBody(m) ==
  /\ mg[m].pc = "setbody"
  /\ states' = [states EXCEPT ![mg[m].st] =
        SetPackfileFor(KindOrder[mg[m].kind], @, mg[m].cur.pf, mg[m].cur.mac,
                       mg[m].cur.off, mg[m].cur.len)]
  /\ lk' = [lk EXCEPT ![mg[m].st][KindOrder[mg[m].kind]] = 0]
  /\ mg' = [mg EXCEPT ![m].pc = "range"]
  /\ UNCHANGED <<apiVars, concVars, sessVars, codecVars, lateVars, backendVars, orderVars, appVars>>

\* deltaState.mu<Kind>.Unlock(); Merge goes on with the next map or returns
MergeUnlockDelta(m) ==
  /\ mg[m].pc = "unlockdelta"
  /\ lk' = [lk EXCEPT ![mg[m].delta][KindOrder[mg[m].kind]] = 0]
  /\ mg' = [mg EXCEPT ![m].pc = IF mg[m].kind < Len(KindOrder) THEN "lockdelta" ELSE "done",
                      ![m].kind = IF mg[m].kind < Len(KindOrder) THEN @ + 1 ELSE @]
  /\ UNCHANGED <<states, apiVars, concVars, sessVars, codecVars, lateVars, backendVars, orderVars, appVars>>

\* Merge has returned; the caller goes on
MergeReturn(m) ==
  /\ mg[m].pc = "done"
  /\ mg' = [mg EXCEPT ![m].pc = "idle",
                      ![m].past = @ \cup {[st |-> mg[m].st, delta |-> states[mg[m].delta]]}]
  /\ UNCHANGED <<states, apiVars, concVars, sessVars, codecVars, lateVars, backendVars, orderVars, lk, appVars>>

NextLocks ==
  \/ \E t \in StateNames, kind \in Kinds, sp \in Subparts, mac \in MACs :
        LocksSetPackfile(t, kind, sp, mac)
  \/ \E t \in StateNames : LocksResetDirty(t)
  \/ \E m \in MergeThreads, st \in StateNames, delta \in StateNames : MergeCall(m, st, delta)
  \/ \E m \in MergeThreads : MergeLockDelta(m)
  \/ \E m \in MergeThreads : MergeRange(m)
  \/ \E m \in MergeThreads : MergeSetLock(m)
  \/ \E m \in MergeThreads : MergeSetBody(m)
  \/ \E m \in MergeThreads : MergeUnlockDelta(m)
  \/ \E m \in MergeThreads : MergeReturn(m)

SpecLocks == Init /\ [][NextLocks]_vars

(* ------------------------------------------------------------------ *)
(* The session, with calls after close(packerChan) and a caller that    *)
(* gives the session up                                                 *)
(* ------------------------------------------------------------------ *)

\* a Put* call (PutChunk, PutObject, PutFile, PutDirectory, PutData, PutHeader)
\* once the channel is closed, Encode succeeds: the send on the closed channel
\* panics, nothing is enqueued and nothing is returned
LatePut(blob) ==
  /\ Running
  /\ closed
  /\ late = NoLate
  /\ late' = [op |-> "put", outcome |-> "panic: send on closed channel",
              enqueued |-> FALSE]
  /\ panicked' = TRUE
  /\ UNCHANGED <<states, apiVars, concVars, codecVars, lockVars, backendVars, orderVars,
                 ncpu, chan, closed, prod, wk, clock, packfiles, bstates, hashed,
                 failed, sent, observed, appVars>>

\* the same call when repository.Encode fails: the Encode error is returned
\* before the send
LatePutEncodeError(blob) ==
  /\ Running
  /\ closed
  /\ late = NoLate
  /\ late' = [op |-> "put", outcome |-> "encode error", enqueued |-> FALSE]
  /\ UNCHANGED <<states, apiVars, concVars, sessVars, codecVars, lockVars, backendVars,
                 orderVars, appVars>>

\* a second Commit after the first returned: Header.Serialize, then PutHeader,
\* whose send on the closed channel panics
LateCommit ==
  /\ Running
  /\ closed
  /\ prod \in {"committed", "error"}
  /\ late = NoLate
  /\ late' = [op |-> "commit", outcome |-> "panic: send on closed channel",
              enqueued |-> FALSE]
  /\ panicked' = TRUE
  /\ UNCHANGED <<states, apiVars, concVars, codecVars, lockVars, backendVars, orderVars,
                 ncpu, chan, closed, prod, wk, clock, packfiles, bstates, hashed,
                 failed, sent, observed, appVars>>

\* the caller gives the session up between two records: it makes no further
\* Put* call and does not call Commit. Snapshot has no abort flag, nothing of
\* the session changes and the workers are not told
Cancel ==
  /\ Running
  /\ prod = "scan"
  /\ prod' = "canceled"
  /\ UNCHANGED <<states, apiVars, concVars, codecVars, lockVars, lateVars, backendVars,
                 orderVars, ncpu, chan, closed, wk, clock, packfiles, bstates, hashed,
                 panicked, failed, sent, observed, appVars>>

NextAbort ==
  \/ NextSession
  \/ \E blob \in PutBlobs : LatePut(blob)
  \/ \E blob \in PutBlobs : LatePutEncodeError(blob)
  \/ LateCommit
  \/ Cancel

SpecAbort == InitSession /\ [][NextAbort]_vars

(* ------------------------------------------------------------------ *)
(* storage backends: the S3 repository                                  *)
(* A MAC is 32 bytes, a string a sequence of one-character strings      *)
(* ------------------------------------------------------------------ *)

\* len(objects.MAC{})
MACLen == 32

\* objects.MAC{a, b}: the two bytes, then zeros
MAC32(a, b) == [i \in 1..MACLen |-> IF i = 1 THEN a ELSE IF i = 2 THEN b ELSE 0]

HexDigits == <<"0", "1", "2", "3", "4", "5", "6", "7", "8", "9",
               "a", "b", "c", "d", "e", "f">>

\* the two hex digits of a byte
HexOfByte(b) == <<HexDigits[(b \div 16) + 1], HexDigits[(b % 16) + 1]>>

\* hex of a byte string, two digits per byte
EncodeToString(bytes) == Flatten([i \in 1..Len(bytes) |-> HexOfByte(bytes[i])])

\* fmt.Sprintf("%02x", b)
Sprintf02x(b) == HexOfByte(b)

\* fmt.Sprintf("%016x", mac): the hex of all bytes, padded with zeros on the
\* left when shorter than 16 characters
Sprintf016x(mac) ==
  LET h == EncodeToString(mac)
  IN  IF Len(h) >= 16 THEN h ELSE [i \in 1..(16 - Len(h)) |-> "0"] \o h

\* the value of a hex digit, 16 for any other character
HexValue(c) ==
  IF \E i \in 1..16 : HexDigits[i] = c
    THEN (CHOOSE i \in 1..16 : HexDigits[i] = c) - 1
    ELSE 16

\* hex.DecodeString
DecodeString(str) ==
  IF Len(str) % 2 # 0 \/ \E i \in 1..Len(str) : HexValue(str[i]) = 16
    THEN [ok |-> FALSE, bytes |-> << >>]
    ELSE [ok |-> TRUE,
          bytes |-> [i \in 1..(Len(str) \div 2) |->
                       16 * HexValue(str[2 * i - 1]) + HexValue(str[2 * i])]]

\* strings.HasPrefix
HasPrefix(str, prefix) ==
  Len(str) >= Len(prefix) /\ SubSeq(str, 1, Len(prefix)) = prefix

\* "states/" and "packfiles/"
PrefixOf(space) ==
  IF space = "states"
    THEN <<"s", "t", "a", "t", "e", "s", "/">>
    ELSE <<"p", "a", "c", "k", "f", "i", "l", "e", "s", "/">>

\* mutant of KeyOf: the name is the hex of the first 8 bytes of the MAC
KeyOfFirst8(space, mac) ==
  PrefixOf(space) \o Sprintf02x(mac[1]) \o <<"/">> \o Sprintf016x(SubSeq(mac, 1, 8))

\* fmt.Sprintf("states/%02x/%016x", mac[0], mac), and the same for packfiles/
KeyOf(space, mac) == PrefixOf(space) \o Sprintf02x(mac[1]) \o <<"/">> \o Sprintf016x(mac)

\* object.Key[10:] in GetStates, object.Key[13:] in GetPackfiles
NameOffset(space) == IF space = "states" THEN 10 ELSE 13

RECURSIVE InSomeOrder(_)
\* the elements of a set as a list (ListObjects lists in key order; no caller
\* reads the order)
InSomeOrder(S) ==
  IF S = {} THEN << >>
  ELSE LET x == CHOOSE y \in S : TRUE IN <<x>> \o InSomeOrder(S \ {x})

\* minioClient.ListObjects with Prefix and Recursive: the keys that start with
\* the prefix
ListObjects(bkt, prefix) == InSomeOrder({ k \in DOMAIN bkt : HasPrefix(k, prefix) })

RECURSIVE ListLoop(_, _, _)
\* the loop of GetStates and GetPackfiles over the listed keys
ListLoop(keys, space, acc) ==
  IF keys = << >>
    THEN [err |-> "", list |-> acc]
    ELSE LET key == Head(keys)
         IN  IF HasPrefix(key, PrefixOf(space)) /\ Len(key) >= NameOffset(space)
               THEN LET t == DecodeString(SubSeq(key, NameOffset(space) + 1, Len(key)))
                    IN  IF ~t.ok
                          THEN [err |-> "hex", list |-> << >>]
                          ELSE IF Len(t.bytes) # MACLen
                            THEN ListLoop(Tail(keys), space, acc)
                            ELSE ListLoop(Tail(keys), space, Append(acc, t.bytes))
               ELSE ListLoop(Tail(keys), space, acc)

\* GetStates() and GetPackfiles()
GetList(bkt, space) == ListLoop(ListObjects(bkt, PrefixOf(space)), space, << >>)

\* PutState(mac, rd) and PutPackfile(mac, rd) when PutObject succeeds
PutObject(bkt, space, mac, data) == MapPut(bkt, KeyOf(space, mac), data)

\* RemoveObject: the key is gone; no error when there was none
RemoveObject(bkt, space, mac) ==
  [k \in (DOMAIN bkt) \ {KeyOf(space, mac)} |-> bkt[k]]

\* GetState(mac) and GetPackfile(mac), and the io.Copy of the reader they
\* return: GetObject itself does not fail for a missing key, the read does
GetObject(bkt, space, mac) ==
  IF KeyOf(space, mac) \in DOMAIN bkt
    THEN [err |-> "", data |-> bkt[KeyOf(space, mac)]]
    ELSE [err |-> "NoSuchKey", data |-> << >>]

\* object.ReadAt(buffer, offset) of io.ReaderAt: the bytes of the object from
\* offset on, as many as the buffer holds; fewer come with an error
ReadAt(obj, length, offset) ==
  LET avail == IF offset >= Len(obj) THEN 0
               ELSE IF offset + length <= Len(obj) THEN length ELSE Len(obj) - offset
  IN  [nbytes |-> avail,
       buffer |-> [i \in 1..length |-> IF i <= avail THEN obj[offset + i] ELSE 0],
       err    |-> IF avail < length THEN "EOF" ELSE ""]

\* mutant of GetPackfileBlob: the result of ReadAt is not tested, the bytes
\* read are returned
GetPackfileBlobUnchecked(bkt, mac, offset, length) ==
  IF KeyOf("packfiles", mac) \notin DOMAIN bkt
    THEN [err |-> "NoSuchKey", data |-> << >>]
    ELSE LET r == ReadAt(bkt[KeyOf("packfiles", mac)], length, offset)
         IN  [err |-> "", data |-> SubSeq(r.buffer, 1, r.nbytes)]

\* GetPackfileBlob(mac, offset, length)
GetPackfileBlob(bkt, mac, offset, length) ==
  IF KeyOf("packfiles", mac) \notin DOMAIN bkt
    THEN [err |-> "NoSuchKey", data |-> << >>]
    ELSE LET r == ReadAt(bkt[KeyOf("packfiles", mac)], length, offset)
         IN  IF r.err # ""
               THEN [err |-> r.err, data |-> << >>]
               ELSE IF r.nbytes # length
                 THEN [err |-> "short read", data |-> << >>]
                 ELSE [err |-> "", data |-> r.buffer]

(* ------------------------------------------------------------------ *)
(* storage backends: the fs repository                                  *)
(* ------------------------------------------------------------------ *)

\* the directories of the namespaces under the root of the repository
FsSpaces == {"indexes", "packfiles", "snapshots"}

\* PathIndex, PathPackfile, PathSnapshot: the directory of the namespace, the
\* bucket of the first byte, the hex name
PathOf(space, checksum) == <<space, Sprintf02x(checksum[1]), EncodeToString(checksum)>>

\* the file os.CreateTemp makes for Commit
TempPath(checksum) == <<"tmp", EncodeToString(checksum)>>

RECURSIVE FsListLoop(_, _)
\* the loops of GetIndexes and GetPackfiles over the names of the files of
\* the buckets
FsListLoop(names, acc) ==
  IF names = << >>
    THEN [err |-> "", list |-> acc]
    ELSE LET t == DecodeString(Head(names))
         IN  IF ~t.ok
               THEN [err |-> "hex", list |-> << >>]
               ELSE IF Len(t.bytes) # MACLen
                 THEN FsListLoop(Tail(names), acc)
                 ELSE FsListLoop(Tail(names), Append(acc, t.bytes))

\* GetIndexes() and GetPackfiles(): os.ReadDir of every bucket
FsGetList(fls, space) ==
  FsListLoop(InSomeOrder({ p[3] : p \in { q \in DOMAIN fls : q[1] = space } }), << >>)

\* GetIndex(checksum) and GetPackfile(checksum): os.ReadFile
FsGet(fls, space, checksum) ==
  IF PathOf(space, checksum) \in DOMAIN fls
    THEN [err |-> "", data |-> fls[PathOf(space, checksum)]]
    ELSE [err |-> "ENOENT", data |-> << >>]

(* ------------------------------------------------------------------ *)
(* The backends, each called some number of times                       *)
(* ------------------------------------------------------------------ *)

\* number of backend calls of one behaviour
MaxCalls == 3

\* the MACs the callers store objects under: two buckets, two MACs in one
StoreMACs == {MAC32(16, 32), MAC32(48, 64), MAC32(16, 64)}

\* the byte strings the callers store
StoreData == {<<1, 2, 3, 4, 5>>, <<6, 7>>}

\* PutState and PutPackfile of the S3 repository, PutObject succeeds
S3Put(space, mac, data) ==
  /\ ncalls < MaxCalls
  /\ bucket' = PutObject(bucket, space, mac, data)
  /\ stored' = [stored EXCEPT ![space].live = MapPut(@, mac, data)]
  /\ ncalls' = ncalls + 1
  /\ UNCHANGED <<states, apiVars, concVars, sessVars, codecVars, lockVars, lateVars,
                 orderVars, files, bcall, appVars>>

\* PutState and PutPackfile of the S3 repository, PutObject fails and the
\* error is returned: the bucket is as it was
S3PutError(space, mac, data) ==
  /\ ncalls < MaxCalls
  /\ ncalls' = ncalls + 1
  /\ UNCHANGED <<states, apiVars, concVars, sessVars, codecVars, lockVars, lateVars,
                 orderVars, bucket, files, bcall, stored, appVars>>

\* DeleteState and DeletePackfile of the S3 repository
S3Delete(space, mac) ==
  /\ ncalls < MaxCalls
  /\ bucket' = RemoveObject(bucket, space, mac)
  /\ stored' = [stored EXCEPT ![space].live = [m \in (DOMAIN @) \ {mac} |-> @[m]],
                               ![space].gone =
                                  IF mac \in DOMAIN stored[space].live
                                    THEN @ \cup {mac} ELSE @]
  /\ ncalls' = ncalls + 1
  /\ UNCHANGED <<states, apiVars, concVars, sessVars, codecVars, lockVars, lateVars,
                 orderVars, files, bcall, appVars>>

\* PutIndex, PutPackfile, PutSnapshot of the fs repository: os.Create succeeds,
\* the file exists and is empty
FsCreate(space, checksum, data) ==
  /\ ncalls < MaxCalls
  /\ bcall.pc # "write"
  /\ files' = MapPut(files, PathOf(space, checksum), << >>)
  /\ bcall' = [op |-> "put", space |-> space, mac |-> checksum, data |-> data,
               pc |-> "write", err |-> "",
               fresh |-> PathOf(space, checksum) \notin DOMAIN files]
  /\ ncalls' = ncalls + 1
  /\ UNCHANGED <<states, apiVars, concVars, sessVars, codecVars, lockVars, lateVars,
                 orderVars, bucket, stored, appVars>>

\* the same calls, os.Create fails and the error is returned
FsCreateError(space, checksum, data) ==
  /\ ncalls < MaxCalls
  /\ bcall.pc # "write"
  /\ bcall' = [op |-> "put", space |-> space, mac |-> checksum, data |-> data,
               pc |-> "done", err |-> "create",
               fresh |-> PathOf(space, checksum) \notin DOMAIN files]
  /\ ncalls' = ncalls + 1
  /\ UNCHANGED <<states, apiVars, concVars, sessVars, codecVars, lockVars, lateVars,
                 orderVars, bucket, files, stored, appVars>>

\* f.Write(data) writes all the bytes, the call returns nil
FsWrite ==
  /\ bcall.pc = "write"
  /\ files' = MapPut(files, PathOf(bcall.space, bcall.mac), bcall.data)
  /\ bcall' = [bcall EXCEPT !.pc = "done"]
  /\ UNCHANGED <<states, apiVars, concVars, sessVars, codecVars, lockVars, lateVars,
                 orderVars, bucket, stored, ncalls, appVars>>

\* f.Write(data) fails after n bytes; the error is returned, the deferred
\* f.Close() leaves the file where it is
FsWriteError(n) ==
  /\ bcall.pc = "write"
  /\ n < Len(bcall.data)
  /\ files' = MapPut(files, PathOf(bcall.space, bcall.mac), SubSeq(bcall.data, 1, n))
  /\ bcall' = [bcall EXCEPT !.pc = "done", !.err = "write"]
  /\ UNCHANGED <<states, apiVars, concVars, sessVars, codecVars, lockVars, lateVars,
                 orderVars, bucket, stored, ncalls, appVars>>

\* DeleteIndex and DeletePackfile of the fs repository: os.Remove
FsDelete(space, checksum) ==
  /\ ncalls < MaxCalls
  /\ bcall.pc # "write"
  /\ PathOf(space, checksum) \in DOMAIN files
  /\ files' = [p \in (DOMAIN files) \ {PathOf(space, checksum)} |-> files[p]]
  /\ ncalls' = ncalls + 1
  /\ UNCHANGED <<states, apiVars, concVars, sessVars, codecVars, lockVars, lateVars,
                 orderVars, bucket, bcall, stored, appVars>>

\* Commit(indexID, data) of the fs repository: the bytes go to a temporary
\* file that is renamed to the snapshot's path once written and closed
FsCommit(checksum, data) ==
  /\ ncalls < MaxCalls
  /\ bcall.pc # "write"
  /\ files' = MapPut(files, PathOf("snapshots", checksum), data)
  /\ bcall' = [op |-> "commit", space |-> "snapshots", mac |-> checksum,
               data |-> data, pc |-> "done", err |-> "",
               fresh |-> PathOf("snapshots", checksum) \notin DOMAIN files]
  /\ ncalls' = ncalls + 1
  /\ UNCHANGED <<states, apiVars, concVars, sessVars, codecVars, lockVars, lateVars,
                 orderVars, bucket, stored, appVars>>

\* Commit(indexID, data), f.Write fails after n bytes: the error is returned
\* before the rename, the temporary file stays
FsCommitError(checksum, data, n) ==
  /\ ncalls < MaxCalls
  /\ bcall.pc # "write"
  /\ n < Len(data)
  /\ files' = MapPut(files, TempPath(checksum), SubSeq(data, 1, n))
  /\ bcall' = [op |-> "commit", space |-> "snapshots", mac |-> checksum,
               data |-> data, pc |-> "done", err |-> "write",
               fresh |-> PathOf("snapshots", checksum) \notin DOMAIN files]
  /\ ncalls' = ncalls + 1
  /\ UNCHANGED <<states, apiVars, concVars, sessVars, codecVars, lockVars, lateVars,
                 orderVars, bucket, stored, appVars>>

\* how many bytes a failing f.Write has written
PartialWrites == {0, 2}

\* the S3 repository
NextStore ==
  \/ \E space \in Spaces, mac \in StoreMACs, data \in StoreData : S3Put(space, mac, data)
  \/ \E space \in Spaces, mac \in StoreMACs, data \in StoreData : S3PutError(space, mac, data)
  \/ \E space \in Spaces, mac \in StoreMACs : S3Delete(space, mac)

SpecStore == Init /\ [][NextStore]_vars

\* the fs repository
NextFs ==
  \/ \E space \in FsSpaces, mac \in StoreMACs, data \in StoreData : FsCreate(space, mac, data)
  \/ \E space \in FsSpaces, mac \in StoreMACs, data \in StoreData :
        FsCreateError(space, mac, data)
  \/ FsWrite
  \/ \E n \in PartialWrites : FsWriteError(n)
  \/ \E space \in FsSpaces, mac \in StoreMACs : FsDelete(space, mac)
  \/ \E mac \in StoreMACs, data \in StoreData : FsCommit(mac, data)
  \/ \E mac \in StoreMACs, data \in StoreData, n \in PartialWrites :
        FsCommitError(mac, data, n)

SpecFs == Init /\ [][NextFs]_vars

(* ------------------------------------------------------------------ *)
(* The State API, mutex by mutex: SetPackfileFor*, *Exists,             *)
(* GetSubpartFor*, GetPackfileFor* and Merge called by two threads      *)
(* ------------------------------------------------------------------ *)

\* number of calls of each thread
MaxOrderCalls == 1

\* the kinds the threads call the methods of
OrderKinds == {"chunk", "object"}

\* one step of a method on the State t: an operation on the mutex `name`, or
\* the critical section under it
Ins(do, t, name) ==
  [do |-> do, t |-> t, name |-> name, pf |-> ZeroMAC, mac |-> ZeroMAC, off |-> 0,
   len |-> 0, from |-> t]

\* getOrCreateIdForChecksum: muChecksum.Lock(), then the body and the deferred
\* Unlock
getOrCreateCode(t, checksum) ==
  << Ins("lock", t, "checksum"), [Ins("intern", t, "checksum") EXCEPT !.mac = checksum] >>

\* SetPackfileFor<Kind>: the two checksums are interned, then mu<Kind>.Lock(),
\* the test and the store, and the deferred Unlock
SetPackfileCode(t, kind, pf, mac, off, len) ==
  getOrCreateCode(t, pf) \o getOrCreateCode(t, mac)
    \o << Ins("lock", t, kind),
          [Ins("store", t, kind) EXCEPT !.pf = pf, !.mac = mac, !.off = off, !.len = len] >>

\* <Kind>Exists: the checksum is interned, then mu<Kind>.Lock(), the test and
\* the deferred Unlock
ExistsCode(t, kind, mac) ==
  getOrCreateCode(t, mac)
    \o << Ins("lock", t, kind), [Ins("exists", t, kind) EXCEPT !.mac = mac] >>

\* GetSubpartFor<Kind> and GetPackfileFor<Kind>: the checksum is interned, then
\* mu<Kind>.Lock() and the test
GetSubpartCode(t, kind, mac) ==
  getOrCreateCode(t, mac)
    \o << Ins("lock", t, kind), [Ins("lookup", t, kind) EXCEPT !.mac = mac] >>

\* st.Merge(stateID, deltaState): for each map in turn deltaState.mu<Kind>.Lock(),
\* the range, deltaState.mu<Kind>.Unlock()
MergeCode(st, deltaState) ==
  Flatten([i \in 1..Len(KindOrder) |->
             << Ins("lock", deltaState, KindOrder[i]),
                [Ins("range", st, KindOrder[i]) EXCEPT !.from = deltaState],
                Ins("unlock", deltaState, KindOrder[i]) >>])

\* two States that each hold one chunk, and two threads that have not called
InitOrder ==
  /\ states = [repo  |-> SetPackfileForChunk(New, 11, 1, 0, 4),
               delta |-> SetPackfileForChunk(New, 11, 2, 4, 4)]
  /\ call = NoCall
  /\ ret = NotFound
  /\ registered = [t \in StateNames |-> {}]
  /\ nops = 0
  /\ thr = [th \in Threads |-> IdleThread]
  /\ mu = [k \in Kinds |-> 0]
  /\ fatal = FALSE
  /\ ncpu = 1
  /\ chan = << >>
  /\ closed = FALSE
  /\ prod = "scan"
  /\ wk = [w \in {1} |-> NewWorker]
  /\ clock = 1
  /\ packfiles = EmptyMap
  /\ bstates = {}
  /\ hashed = << >>
  /\ panicked = FALSE
  /\ failed = {}
  /\ sent = << >>
  /\ observed = [t \in StateNames |-> {}]
  /\ wire = NoWire
  /\ loaded = NoLoad
  /\ lk = [t \in StateNames |-> [k \in Kinds |-> 0]]
  /\ mg = [m \in MergeThreads |-> IdleMerge]
  /\ late = NoLate
  /\ bucket = EmptyMap
  /\ files = EmptyMap
  /\ bcall = NoBackendCall
  /\ stored = [space \in Spaces |-> [live |-> EmptyMap, gone |-> {}]]
  /\ ncalls = 0
  /\ ops = [th \in OrderThreads |-> IdleOp]
  /\ mutex = [t \in StateNames |-> [n \in LockNames |-> 0]]
  /\ srv = NoServer
  /\ locate = NoLocate
  /\ page = NoPage

\* the step thread th is at
Cur(th) == Head(ops[th].code)

InCall(th) == ~fatal /\ ops[th].pc = "run" /\ ops[th].code # << >>

\* the mutexes held once (t, name) is unlocked
Released(held, t, name) == SelectSeq(held, LAMBDA h : h # <<t, name>>)

\* thread th is not in a call and has calls left
CanCall(th) ==
  /\ ~fatal
  /\ ops[th].pc = "idle"
  /\ ops[th].calls < MaxOrderCalls

\* thread th enters a method, code is its steps
Called(th, op, code) ==
  [ops EXCEPT ![th].pc = "run", ![th].op = op, ![th].code = code, ![th].calls = @ + 1]

OrderSetPackfile(th, t, kind, sp, mac) ==
  /\ CanCall(th)
  /\ ops' = Called(th, "set",
              SetPackfileCode(t, kind, sp.pf, mac, sp.off, sp.len))
  /\ UNCHANGED <<states, apiVars, concVars, sessVars, codecVars, lockVars, lateVars,
                 backendVars, mutex, appVars>>

OrderExists(th, t, kind, mac) ==
  /\ CanCall(th)
  /\ ops' = Called(th, "exists",
              ExistsCode(t, kind, mac))
  /\ UNCHANGED <<states, apiVars, concVars, sessVars, codecVars, lockVars, lateVars,
                 backendVars, mutex, appVars>>

OrderGetSubpart(th, t, kind, mac) ==
  /\ CanCall(th)
  /\ ops' = Called(th, "subpart",
              GetSubpartCode(t, kind, mac))
  /\ UNCHANGED <<states, apiVars, concVars, sessVars, codecVars, lockVars, lateVars,
                 backendVars, mutex, appVars>>

OrderGetPackfile(th, t, kind, mac) ==
  /\ CanCall(th)
  /\ ops' = Called(th, "packfile",
              GetSubpartCode(t, kind, mac))
  /\ UNCHANGED <<states, apiVars, concVars, sessVars, codecVars, lockVars, lateVars,
                 backendVars, mutex, appVars>>

OrderMerge(th, st, deltaState) ==
  /\ CanCall(th)
  /\ ops' = Called(th, "merge",
              MergeCode(st, deltaState))
  /\ UNCHANGED <<states, apiVars, concVars, sessVars, codecVars, lockVars, lateVars,
                 backendVars, mutex, appVars>>

\* mu.Lock(): the thread goes on once the mutex is free; a sync.Mutex is not
\* reentrant
OrderLock(th) ==
  /\ InCall(th)
  /\ Cur(th).do = "lock"
  /\ mutex[Cur(th).t][Cur(th).name] = 0
  /\ mutex' = [mutex EXCEPT ![Cur(th).t][Cur(th).name] = th]
  /\ ops' = [ops EXCEPT ![th].code = Tail(@),
                        ![th].held = Append(@, <<Cur(th).t, Cur(th).name>>)]
  /\ UNCHANGED <<states, apiVars, concVars, sessVars, codecVars, lockVars, lateVars,
                 backendVars, appVars>>

\* mu.Unlock()
OrderUnlock(th) ==
  /\ InCall(th)
  /\ Cur(th).do = "unlock"
  /\ mutex' = [mutex EXCEPT ![Cur(th).t][Cur(th).name] = 0]
  /\ ops' = [ops EXCEPT ![th].code = Tail(@),
                        ![th].held = Released(@, Cur(th).t, Cur(th).name)]
  /\ UNCHANGED <<states, apiVars, concVars, sessVars, codecVars, lockVars, lateVars,
                 backendVars, appVars>>

\* the body of getOrCreateIdForChecksum and its deferred muChecksum.Unlock()
OrderIntern(th) ==
  /\ InCall(th)
  /\ Cur(th).do = "intern"
  /\ states' = [states EXCEPT ![Cur(th).t] = getOrCreateIdForChecksum(@, Cur(th).mac)]
  /\ mutex' = [mutex EXCEPT ![Cur(th).t]["checksum"] = 0]
  /\ ops' = [ops EXCEPT ![th].code = Tail(@),
                        ![th].held = Released(@, Cur(th).t, "checksum")]
  /\ UNCHANGED <<apiVars, concVars, sessVars, codecVars, lockVars, lateVars, backendVars, appVars>>

\* SetPackfileFor<Kind> under mu<Kind>: the test, the store, the dirty flag,
\* and the deferred Unlock
OrderStore(th) ==
  /\ InCall(th)
  /\ Cur(th).do = "store"
  /\ states' = [states EXCEPT ![Cur(th).t] =
        SetPackfileFor(Cur(th).name, @, Cur(th).pf, Cur(th).mac, Cur(th).off, Cur(th).len)]
  /\ mutex' = [mutex EXCEPT ![Cur(th).t][Cur(th).name] = 0]
  /\ ops' = [ops EXCEPT ![th].code = Tail(@),
                        ![th].held = Released(@, Cur(th).t, Cur(th).name)]
  /\ UNCHANGED <<apiVars, concVars, sessVars, codecVars, lockVars, lateVars, backendVars, appVars>>

\* <Kind>Exists under mu<Kind>: the test and the deferred Unlock
OrderExistsTest(th) ==
  /\ InCall(th)
  /\ Cur(th).do = "exists"
  /\ mutex' = [mutex EXCEPT ![Cur(th).t][Cur(th).name] = 0]
  /\ ops' = [ops EXCEPT ![th].code = Tail(@),
                        ![th].held = Released(@, Cur(th).t, Cur(th).name)]
  /\ UNCHANGED <<states, apiVars, concVars, sessVars, codecVars, lockVars, lateVars,
                 backendVars, appVars>>

\* GetSubpartFor<Kind> and GetPackfileFor<Kind> under mu<Kind>: when the map
\* has no entry, the deferred Unlock; when it has one, muChecksum.Lock(), the
\* read of IdToChecksum, muChecksum.Unlock(), and then the deferred Unlock
OrderLookup(th) ==
  /\ InCall(th)
  /\ Cur(th).do = "lookup"
  /\ LET t     == Cur(th).t
         field == MapOf(Cur(th).name)
         found == IdForChecksum(states[t], Cur(th).mac) \in DOMAIN states[t][field]
     IN  IF found
           THEN /\ ops' = [ops EXCEPT ![th].code =
                     << Ins("lock", t, "checksum"), Ins("read", t, "checksum"),
                        Ins("unlock", t, Cur(th).name) >> \o Tail(@)]
                /\ UNCHANGED mutex
           ELSE /\ mutex' = [mutex EXCEPT ![t][Cur(th).name] = 0]
                /\ ops' = [ops EXCEPT ![th].code = Tail(@),
                                      ![th].held = Released(@, t, Cur(th).name)]
  /\ UNCHANGED <<states, apiVars, concVars, sessVars, codecVars, lockVars, lateVars,
                 backendVars, appVars>>

\* packfileChecksum := st.IdToChecksum[subpart.Packfile] and muChecksum.Unlock()
OrderRead(th) ==
  /\ InCall(th)
  /\ Cur(th).do = "read"
  /\ mutex' = [mutex EXCEPT ![Cur(th).t]["checksum"] = 0]
  /\ ops' = [ops EXCEPT ![th].code = Tail(@),
                        ![th].held = Released(@, Cur(th).t, "checksum")]
  /\ UNCHANGED <<states, apiVars, concVars, sessVars, codecVars, lockVars, lateVars,
                 backendVars, appVars>>

\* Merge, the range over one map of deltaState under deltaState.mu<Kind>: the
\* range begins with the entries the map has; each round reads the two
\* checksums from deltaState.IdToChecksum, without muChecksum, and calls
\* st.SetPackfileFor<Kind>; after the last entry the range ends
OrderRange(th) ==
  /\ InCall(th)
  /\ Cur(th).do = "range"
  /\ LET d     == states[Cur(th).from]
         field == MapOf(Cur(th).name)
     IN  IF ~ops[th].ranging
           THEN ops' = [ops EXCEPT ![th].ranging = TRUE, ![th].todo = DOMAIN d[field]]
           ELSE IF ops[th].todo = {}
             THEN ops' = [ops EXCEPT ![th].ranging = FALSE, ![th].code = Tail(@)]
             ELSE \E id \in ops[th].todo :
                    ops' = [ops EXCEPT
                      ![th].todo = @ \ {id},
                      ![th].code =
                         SetPackfileCode(Cur(th).t, Cur(th).name,
                                         ChecksumOfId(d, d[field][id].Packfile),
                                         ChecksumOfId(d, id),
                                         d[field][id].Offset, d[field][id].Length)
                           \o @]
  /\ UNCHANGED <<states, apiVars, concVars, sessVars, codecVars, lockVars, lateVars,
                 backendVars, mutex, appVars>>

\* Merge reads deltaState.IdToChecksum while another thread is in
\* getOrCreateIdForChecksum on the same State: a concurrent map read and map
\* write, which the Go runtime may stop the process on
OrderRace(th) ==
  /\ InCall(th)
  /\ Cur(th).do = "range"
  /\ ops[th].ranging
  /\ ops[th].todo # {}
  /\ mutex[Cur(th).from]["checksum"] \notin {0, th}
  /\ fatal' = TRUE
  /\ UNCHANGED <<states, apiVars, thr, mu, sessVars, codecVars, lockVars, lateVars,
                 backendVars, orderVars, appVars>>

\* the method returns
OrderReturn(th) ==
  /\ ~fatal
  /\ ops[th].pc = "run"
  /\ ops[th].code = << >>
  /\ ops' = [ops EXCEPT ![th].pc = "idle"]
  /\ UNCHANGED <<states, apiVars, concVars, sessVars, codecVars, lockVars, lateVars,
                 backendVars, mutex, appVars>>

NextOrder ==
  \/ \E th \in OrderThreads, t \in StateNames, kind \in OrderKinds, sp \in Subparts,
        mac \in MACs : OrderSetPackfile(th, t, kind, sp, mac)
  \/ \E th \in OrderThreads, t \in StateNames, kind \in OrderKinds, mac \in MACs :
        OrderExists(th, t, kind, mac)
  \/ \E th \in OrderThreads, t \in StateNames, kind \in OrderKinds, mac \in MACs :
        OrderGetSubpart(th, t, kind, mac)
  \/ \E th \in OrderThreads, t \in StateNames, kind \in OrderKinds, mac \in MACs :
        OrderGetPackfile(th, t, kind, mac)
  \/ \E th \in OrderThreads, st \in StateNames, deltaState \in StateNames :
        OrderMerge(th, st, deltaState)
  \/ \E th \in OrderThreads : OrderLock(th)
  \/ \E th \in OrderThreads : OrderUnlock(th)
  \/ \E th \in OrderThreads : OrderIntern(th)
  \/ \E th \in OrderThreads : OrderStore(th)
  \/ \E th \in OrderThreads : OrderExistsTest(th)
  \/ \E th \in OrderThreads : OrderLookup(th)
  \/ \E th \in OrderThreads : OrderRead(th)
  \/ \E th \in OrderThreads : OrderRange(th)
  \/ \E th \in OrderThreads : OrderRace(th)
  \/ \E th \in OrderThreads : OrderReturn(th)

SpecOrder == InitOrder /\ [][NextOrder]_vars

(* ------------------------------------------------------------------ *)
(* The session under fair scheduling, with no worker error              *)
(* ------------------------------------------------------------------ *)

\* how many blobs the producer may put before Commit
MaxLivePuts == 3

\* the blobs the producer puts
LiveBlobs == { blob \in PutBlobs : blob.type = "chunk" }

\* PutChunk: encode and enqueue; the send blocks while the channel is full
LivePut(blob) ==
  /\ Running
  /\ prod = "scan"
  /\ Len(sent) < MaxLivePuts
  /\ ~closed
  /\ Len(chan) < ChanCapacity
  /\ Enqueue(blob)
  /\ UNCHANGED <<states, apiVars, concVars, codecVars, lockVars, lateVars, backendVars,
                 orderVars, ncpu, closed, prod, wk, clock, packfiles, bstates, hashed,
                 panicked, failed, observed, appVars>>

\* the steps of Commit after the header is enqueued
CommitSteps == CommitClose \/ DoneLatch \/ CommitPutState \/ CommitPutStateError

\* the steps of packer worker w
WorkerSteps(w) ==
  /\ w \in Workers
  /\ \/ WorkerReceive(w)
     \/ WorkerDrained(w)
     \/ WorkerPutPackfile(w)
     \/ WorkerRegisterRepo(w)
     \/ WorkerRegisterDelta(w)

NextLive ==
  \/ \E blob \in LiveBlobs : LivePut(blob)
  \/ CommitPutHeader
  \/ CommitClose
  \/ DoneLatch
  \/ CommitPutState
  \/ CommitPutStateError
  \/ \E w \in Workers : WorkerReceive(w)
  \/ \E w \in Workers : WorkerDrained(w)
  \/ \E w \in Workers : WorkerPutPackfile(w)
  \/ \E w \in Workers : WorkerRegisterRepo(w)
  \/ \E w \in Workers : WorkerRegisterDelta(w)

\* every goroutine that can take a step is scheduled: the workers, and Commit
\* once it is past the header
SpecLive ==
  /\ InitSession
  /\ [][NextLive]_vars
  /\ WF_vars(CommitSteps)
  /\ \A w \in 1..2 : WF_vars(WorkerSteps(w))

(* ------------------------------------------------------------------ *)
(* plakard: one connection served by handleConnection                   *)
(* ------------------------------------------------------------------ *)

\* how many requests the client sends on the connection
MaxRequests == 3

\* the requests a client sends; Uuid is set when the request is decoded
ClientRequests ==
  { [Type |-> "ReqOpen", Repository |-> "A", Checksum |-> 0],
    [Type |-> "ReqCreate", Repository |-> "A", Checksum |-> 0],
    [Type |-> "ReqGetStates", Repository |-> "", Checksum |-> 0],
    [Type |-> "ReqPutState", Repository |-> "", Checksum |-> 2],
    [Type |-> "ReqDeleteState", Repository |-> "", Checksum |-> 1],
    [Type |-> "ReqDeletePackfile", Repository |-> "", Checksum |-> 1] }

\* the requests whose handler assigns lrepository
OpenTypes == {"ReqOpen", "ReqCreate"}

DeleteTypes == {"ReqDeleteState", "ReqDeletePackfile"}

\* the Type of the response: "Res" in place of "Req"
ResType(type) ==
  CASE type = "ReqOpen"           -> "ResOpen"
    [] type = "ReqCreate"         -> "ResCreate"
    [] type = "ReqGetStates"      -> "ResGetStates"
    [] type = "ReqPutState"       -> "ResPutState"
    [] type = "ReqDeleteState"    -> "ResDeleteState"
    [] type = "ReqDeletePackfile" -> "ResDeletePackfile"

\* a handler goroutine that has just been started; at and used are history:
\* when it accessed lrepository and which repository it found there
NewHandler(request, uuid) ==
  [req |-> request, Uuid |-> uuid, pc |-> "start", at |-> 0, used |-> "none",
   Err |-> "", Checksums |-> {}]

\* the rest of the model does not move
ServerFrame ==
  UNCHANGED <<states, apiVars, concVars, sessVars, codecVars, lockVars, lateVars,
              backendVars, orderVars, locate, page>>

ServerRunning == srv.pc \in {"loop", "wait"} /\ ~srv.crashed

\* handler h is at pc
HandlerAt(h, pc) ==
  /\ ServerRunning
  /\ h \in 1..Len(srv.handlers)
  /\ srv.handlers[h].pc = pc

\* Server(repo, addr, options): a connection is accepted and handed to
\* handleConnection with the served repository
ServerAccept(options) ==
  /\ srv.pc = "off"
  /\ srv' = [srv EXCEPT !.pc = "loop", !.NoDelete = options.NoDelete,
                        !.repo = "main", !.lrepository = "main"]
  /\ ServerFrame

\* Stdio(options): handleConnection(nil, os.Stdin, os.Stdout, options)
Stdio(options) ==
  /\ srv.pc = "off"
  /\ srv' = [srv EXCEPT !.pc = "loop", !.NoDelete = options.NoDelete,
                        !.repo = "nil", !.lrepository = "nil"]
  /\ ServerFrame

\* the loop: decoder.Decode(&request), wg.Add(1) and go func() for the type
Decode(request) ==
  /\ srv.pc = "loop"
  /\ ~srv.crashed
  /\ Len(srv.handlers) < MaxRequests
  /\ srv' = [srv EXCEPT !.handlers =
               Append(@, NewHandler(request, Len(srv.handlers) + 1))]
  /\ ServerFrame

\* decoder.Decode fails (the client closed the connection): break, wg.Wait()
DecodeEOF ==
  /\ srv.pc = "loop"
  /\ ~srv.crashed
  /\ srv' = [srv EXCEPT !.pc = "wait"]
  /\ ServerFrame

\* wg.Wait() returns once every handler is done, handleConnection returns
ServerReturn ==
  /\ srv.pc = "wait"
  /\ ~srv.crashed
  /\ \A h \in 1..Len(srv.handlers) : srv.handlers[h].pc = "done"
  /\ srv' = [srv EXCEPT !.pc = "closed"]
  /\ ServerFrame

\* ReqCreate, ReqOpen: storage.Create or storage.Open and repository.New
\* succeed, lrepository is assigned
HandleOpen(h) ==
  /\ HandlerAt(h, "start")
  /\ srv.handlers[h].req.Type \in OpenTypes
  /\ srv' = [srv EXCEPT !.lrepository = srv.handlers[h].req.Repository,
                        !.tick = @ + 1,
                        !.handlers[h].at = srv.tick + 1,
                        !.handlers[h].used = srv.handlers[h].req.Repository,
                        !.handlers[h].pc = "reply"]
  /\ ServerFrame

\* ReqOpen, no error: config := repo.Configuration() is called on the repo
\* argument, which is nil under Stdio; the method is not part of this source
\* and a nil receiver may end the process
HandleOpenConfigPanic(h) ==
  /\ HandlerAt(h, "reply")
  /\ srv.handlers[h].req.Type = "ReqOpen"
  /\ srv.handlers[h].Err = ""
  /\ srv.repo = "nil"
  /\ srv' = [srv EXCEPT !.crashed = TRUE]
  /\ ServerFrame

\* ReqCreate, ReqOpen: repository.New fails, lrepository is assigned nil and
\* the response carries the error
HandleOpenError(h) ==
  /\ HandlerAt(h, "start")
  /\ srv.handlers[h].req.Type \in OpenTypes
  /\ srv' = [srv EXCEPT !.lrepository = "nil",
                        !.tick = @ + 1,
                        !.handlers[h].at = srv.tick + 1,
                        !.handlers[h].used = "nil",
                        !.handlers[h].Err = "open failed",
                        !.handlers[h].pc = "reply"]
  /\ ServerFrame

\* what a method of the repository does for a request
Served(content, request) ==
  CASE request.Type = "ReqPutState" ->
         [content EXCEPT !.states = @ \cup {request.Checksum}]
    [] request.Type = "ReqDeleteState" ->
         [content EXCEPT !.states = @ \ {request.Checksum}]
    [] request.Type = "ReqDeletePackfile" ->
         [content EXCEPT !.packfiles = @ \ {request.Checksum}]
    [] OTHER -> content

\* the handler needs the repository: every type but the two that assign it,
\* and the deletes only when they are allowed
ReadsRepository(request) ==
  /\ request.Type \notin OpenTypes
  /\ request.Type \in DeleteTypes => ~srv.NoDelete

\* ReqGetStates, ReqPutState, ReqDeleteState, ReqDeletePackfile: the handler
\* reads lrepository and calls the method; a nil lrepository is a nil pointer
\* dereference, which ends the process
HandleRequest(h) ==
  /\ HandlerAt(h, "start")
  /\ ReadsRepository(srv.handlers[h].req)
  /\ LET request == srv.handlers[h].req
         lrep    == srv.lrepository
     IN  IF lrep = "nil"
           THEN srv' = [srv EXCEPT !.crashed = TRUE,
                                   !.tick = @ + 1,
                                   !.handlers[h].at = srv.tick + 1,
                                   !.handlers[h].used = "nil"]
           ELSE srv' = [srv EXCEPT
                  !.content[lrep] = Served(@, request),
                  !.tick = @ + 1,
                  !.handlers[h].at = srv.tick + 1,
                  !.handlers[h].used = lrep,
                  !.handlers[h].Checksums =
                     IF request.Type = "ReqGetStates"
                       THEN srv.content[lrep].states ELSE {},
                  !.handlers[h].pc = "reply"]
  /\ ServerFrame

\* mutant of HandleDeleteRefused: options.NoDelete is not looked at and the
\* repository deletes
HandleDeleteNotRefused(h) ==
  /\ HandlerAt(h, "start")
  /\ srv.handlers[h].req.Type \in DeleteTypes
  /\ srv.NoDelete
  /\ srv.lrepository # "nil"
  /\ srv' = [srv EXCEPT !.content[srv.lrepository] = Served(@, srv.handlers[h].req),
                        !.handlers[h].pc = "reply"]
  /\ ServerFrame

\* ReqDeleteState, ReqDeletePackfile with options.NoDelete: the error is set
\* and the repository is not called
HandleDeleteRefused(h) ==
  /\ HandlerAt(h, "start")
  /\ srv.handlers[h].req.Type \in DeleteTypes
  /\ srv.NoDelete
  /\ srv' = [srv EXCEPT !.handlers[h].Err = "not allowed to delete",
                        !.handlers[h].pc = "reply"]
  /\ ServerFrame

\* the response: network.Request{Uuid: request.Uuid, Type: "Res...", Payload}
Response(handler) ==
  [Uuid |-> handler.Uuid, Type |-> ResType(handler.req.Type), Err |-> handler.Err,
   Checksums |-> handler.Checksums]

\* encoder.Encode(&result), and the deferred wg.Done()
HandleReply(h) ==
  /\ HandlerAt(h, "reply")
  /\ srv' = [srv EXCEPT !.out = @ \cup {Response(srv.handlers[h])},
                        !.handlers[h].pc = "done"]
  /\ ServerFrame

ServerOptions == [NoDelete : BOOLEAN]

NextServer ==
  \/ \E options \in ServerOptions : ServerAccept(options)
  \/ \E options \in ServerOptions : Stdio(options)
  \/ \E request \in ClientRequests : Decode(request)
  \/ DecodeEOF
  \/ ServerReturn
  \/ \E h \in 1..MaxRequests : HandleOpen(h)
  \/ \E h \in 1..MaxRequests : HandleOpenError(h)
  \/ \E h \in 1..MaxRequests : HandleOpenConfigPanic(h)
  \/ \E h \in 1..MaxRequests : HandleRequest(h)
  \/ \E h \in 1..MaxRequests : HandleDeleteRefused(h)
  \/ \E h \in 1..MaxRequests : HandleReply(h)

SpecServer == Init /\ [][NextServer]_vars

(* ------------------------------------------------------------------ *)
(* LocateSnapshotIDs: the listing loop and the loader goroutines        *)
(* ------------------------------------------------------------------ *)

\* the snapshots of the repository: what snapshot.Load returns for each ID, or
\* that it fails; Timestamp 0 is the zero time.Time
LocateSnapshots ==
  [id \in {31, 32, 33, 34} |->
     CASE id = 31 -> [ok |-> TRUE, Timestamp |-> 1, Name |-> "a", Category |-> "c",
                      Environment |-> "e", Perimeter |-> "p", Job |-> "j",
                      Tags |-> {"t"}]
       [] id = 32 -> [ok |-> TRUE, Timestamp |-> 3, Name |-> "a", Category |-> "",
                      Environment |-> "e", Perimeter |-> "", Job |-> "j",
                      Tags |-> {}]
       [] id = 33 -> [ok |-> TRUE, Timestamp |-> 2, Name |-> "b", Category |-> "c",
                      Environment |-> "", Perimeter |-> "p", Job |-> "",
                      Tags |-> {"t", "u"}]
       [] id = 34 -> [ok |-> FALSE, Timestamp |-> 4, Name |-> "a", Category |-> "c",
                      Environment |-> "e", Perimeter |-> "p", Job |-> "j",
                      Tags |-> {"t"}]]

\* NewDefaultLocateOptions()
NewDefaultLocateOptions ==
  [MaxConcurrency |-> 1, SortOrder |-> 0, Latest |-> FALSE, Before |-> 0, Since |-> 0,
   Name |-> "", Category |-> "", Environment |-> "", Perimeter |-> "", Job |-> "",
   Tag |-> ""]

\* the filters a caller sets
LocateFilters ==
  { NewDefaultLocateOptions,
    [NewDefaultLocateOptions EXCEPT !.Name = "a"],
    [NewDefaultLocateOptions EXCEPT !.Category = "c"],
    [NewDefaultLocateOptions EXCEPT !.Environment = "e"],
    [NewDefaultLocateOptions EXCEPT !.Perimeter = "p"],
    [NewDefaultLocateOptions EXCEPT !.Job = "j"],
    [NewDefaultLocateOptions EXCEPT !.Tag = "t"],
    [NewDefaultLocateOptions EXCEPT !.Before = 2],
    [NewDefaultLocateOptions EXCEPT !.Since = 2],
    [NewDefaultLocateOptions EXCEPT !.Name = "a", !.Since = 2, !.Tag = "x"] }

\* the largest MaxConcurrency a caller passes
MaxConcurrencyBound == 2

\* LocateSortOrderNone, LocateSortOrderAscending, LocateSortOrderDescending
SortOrders == {0, 1, -1}

\* the LocateOptions values of the calls
LocateOptionValues ==
  { [f EXCEPT !.MaxConcurrency = c, !.SortOrder = o, !.Latest = l] :
      f \in LocateFilters, c \in 0..MaxConcurrencyBound, o \in SortOrders,
      l \in BOOLEAN }

\* mutant of PassesFilters: Since rejects a snapshot taken at that very time
PassesFiltersSinceExclusive(hdr, opts) ==
  /\ opts.Name # "" => hdr.Name = opts.Name
  /\ opts.Category # "" => hdr.Category = opts.Category
  /\ opts.Environment # "" => hdr.Environment = opts.Environment
  /\ opts.Perimeter # "" => hdr.Perimeter = opts.Perimeter
  /\ opts.Job # "" => hdr.Job = opts.Job
  /\ opts.Tag # "" => opts.Tag \in hdr.Tags
  /\ opts.Before # 0 => ~(hdr.Timestamp > opts.Before)
  /\ opts.Since # 0 => hdr.Timestamp > opts.Since

\* the tests of one loader goroutine on the loaded header: a filter that is
\* set and not met makes it return
PassesFilters(hdr, opts) ==
  /\ opts.Name # "" => hdr.Name = opts.Name
  /\ opts.Category # "" => hdr.Category = opts.Category
  /\ opts.Environment # "" => hdr.Environment = opts.Environment
  /\ opts.Perimeter # "" => hdr.Perimeter = opts.Perimeter
  /\ opts.Job # "" => hdr.Job = opts.Job
  /\ opts.Tag # "" => opts.Tag \in hdr.Tags
  /\ opts.Before # 0 => ~(hdr.Timestamp > opts.Before)
  /\ opts.Since # 0 => ~(hdr.Timestamp < opts.Since)

\* one pass of an insertion: x goes before the first element it is less than
RECURSIVE InsertStable(_, _, _)
InsertStable(x, sorted, order) ==
  IF sorted = << >> THEN << x >>
  ELSE IF (IF order = 1 THEN x.timestamp < Head(sorted).timestamp
                        ELSE x.timestamp > Head(sorted).timestamp)
         THEN << x >> \o sorted
         ELSE << Head(sorted) >> \o InsertStable(x, Tail(sorted), order)

\* sort.SliceStable(workSet, less) with less by timestamp, Before for
\* Ascending and After for Descending: equal timestamps keep their order
RECURSIVE SliceStable(_, _)
SliceStable(workSet, order) ==
  IF workSet = << >> THEN << >>
  ELSE InsertStable(workSet[Len(workSet)],
                    SliceStable(SubSeq(workSet, 1, Len(workSet) - 1), order), order)

\* what LocateSnapshotIDs does after wg.Wait(): the sort when a SortOrder is
\* given, workSet[len(workSet)-1:] when Latest is set and there is more than
\* one result, and the IDs of what is left
ResultSet(workSet, opts) ==
  LET sorted == IF opts.SortOrder # 0 THEN SliceStable(workSet, opts.SortOrder)
                                      ELSE workSet
      kept   == IF opts.Latest /\ Len(sorted) > 1
                  THEN SubSeq(sorted, Len(sorted), Len(sorted)) ELSE sorted
  IN  [i \in 1..Len(kept) |-> kept[i].snapshotID]

LocateFrame ==
  UNCHANGED <<states, apiVars, concVars, sessVars, codecVars, lockVars, lateVars,
              backendVars, orderVars, srv, page>>

\* LocateSnapshotIDs(repo, opts): workSet, the WaitGroup and the semaphore
\* channel are made, the range over repo.ListSnapshots() begins
LocateSnapshotIDs(opts) ==
  /\ locate.pc = "off"
  /\ locate' = [NoLocate EXCEPT !.pc = "list", !.opts = opts,
                                !.todo = DOMAIN LocateSnapshots]
  /\ LocateFrame

\* one round of the range: maxConcurrency <- struct{}{} goes through when the
\* channel has room, or, for a channel of capacity 0, when a loader is at its
\* receive; then wg.Add(1) and go func(snapshotID)
ListNext(snapshotID) ==
  /\ locate.pc = "list"
  /\ snapshotID \in locate.todo
  /\ IF locate.sem < locate.opts.MaxConcurrency
       THEN locate' = [locate EXCEPT !.sem = @ + 1, !.wg = @ + 1,
                                     !.todo = @ \ {snapshotID},
                                     !.running = @ \cup {<<snapshotID, "load">>}]
       ELSE \E l \in locate.running :
              /\ l[2] = "release"
              /\ locate.opts.MaxConcurrency = 0
              /\ locate' = [locate EXCEPT
                    !.todo = @ \ {snapshotID},
                    !.running = (@ \ {l}) \cup {<<snapshotID, "load">>}]
  /\ LocateFrame

\* the range is over: wg.Wait()
ListDone ==
  /\ locate.pc = "list"
  /\ locate.todo = {}
  /\ locate' = [locate EXCEPT !.pc = "wait"]
  /\ LocateFrame

\* a loader: snapshot.Load fails, or a filter is not met: return
LoaderSkip(snapshotID) ==
  /\ <<snapshotID, "load">> \in locate.running
  /\ \/ ~LocateSnapshots[snapshotID].ok
     \/ ~PassesFilters(LocateSnapshots[snapshotID], locate.opts)
  /\ locate' = [locate EXCEPT !.running =
                  (@ \ {<<snapshotID, "load">>}) \cup {<<snapshotID, "release">>}]
  /\ LocateFrame

\* a loader: the snapshot is loaded and passes the filters; under workSetMutex
\* its ID and timestamp are appended to workSet
LoaderAppend(snapshotID) ==
  /\ <<snapshotID, "load">> \in locate.running
  /\ LocateSnapshots[snapshotID].ok
  /\ PassesFilters(LocateSnapshots[snapshotID], locate.opts)
  /\ locate' = [locate EXCEPT
        !.workSet = Append(@, [snapshotID |-> snapshotID,
                               timestamp |-> LocateSnapshots[snapshotID].Timestamp]),
        !.running = (@ \ {<<snapshotID, "load">>}) \cup {<<snapshotID, "release">>}]
  /\ LocateFrame

\* a loader's deferred function: <-maxConcurrency and wg.Done()
LoaderRelease(snapshotID) ==
  /\ <<snapshotID, "release">> \in locate.running
  /\ locate.sem > 0
  /\ locate' = [locate EXCEPT !.sem = @ - 1, !.wg = @ - 1,
                              !.running = @ \ {<<snapshotID, "release">>}]
  /\ LocateFrame

\* wg.Wait() returns; sort, Latest, resultSet; return resultSet, nil
LocateReturn ==
  /\ locate.pc = "wait"
  /\ locate.wg = 0
  /\ locate' = [locate EXCEPT !.pc = "returned",
                              !.resultSet = ResultSet(locate.workSet, locate.opts)]
  /\ LocateFrame

NextLocate ==
  \/ \E opts \in LocateOptionValues : LocateSnapshotIDs(opts)
  \/ \E snapshotID \in DOMAIN LocateSnapshots : ListNext(snapshotID)
  \/ ListDone
  \/ \E snapshotID \in DOMAIN LocateSnapshots : LoaderSkip(snapshotID)
  \/ \E snapshotID \in DOMAIN LocateSnapshots : LoaderAppend(snapshotID)
  \/ \E snapshotID \in DOMAIN LocateSnapshots : LoaderRelease(snapshotID)
  \/ LocateReturn

SpecLocate == Init /\ [][NextLocate]_vars

(* ------------------------------------------------------------------ *)
(* api: GET of the snapshots of the repository, by offset and limit     *)
(* ------------------------------------------------------------------ *)

\* how many snapshots the repository holds at most
MaxSnapshots == 3

\* a uint32 is kept as its two 16-bit halves <<high, low>>
TwoTo16 == 256 * 256

U32(n) == << (n \div TwoTo16) % TwoTo16, n % TwoTo16 >>

\* a + b in uint32 arithmetic: the carry out of the high half is lost
AddU32(a, b) ==
  << (a[1] + b[1] + ((a[2] + b[2]) \div TwoTo16)) % TwoTo16, (a[2] + b[2]) % TwoTo16 >>

\* a > b on uint32 values
GreaterU32(a, b) == a[1] > b[1] \/ (a[1] = b[1] /\ a[2] > b[2])

\* the values of the offset and limit query parameters: small ones, and the
\* largest a uint32 holds
Uint32Values ==
  { U32(0), U32(1), U32(2), U32(3), U32(4),
    << TwoTo16 - 1, TwoTo16 - 2 >>, << TwoTo16 - 1, TwoTo16 - 1 >> }

\* headers[low:high] of a slice of length n: the elements at low..high-1,
\* and a run-time panic unless low <= high <= n
Slice(headers, low, high) ==
  IF ~GreaterU32(low, high) /\ ~GreaterU32(high, U32(Len(headers)))
    THEN [panic |-> FALSE, items |-> SubSeq(headers, low[2] + 1, high[2])]
    ELSE [panic |-> TRUE, items |-> << >>]

\* repositorySnapshots on n snapshots; the sorted headers are named by their
\* position, 0 for the first
repositorySnapshots(offset, limit, n) ==
  LET headers == [i \in 1..n |-> i - 1]
      limit1  == IF limit = U32(0) THEN U32(n) ELSE limit
      sum     == AddU32(offset, limit1)
      sliced  == IF GreaterU32(offset, U32(n)) THEN [panic |-> FALSE, items |-> << >>]
                 ELSE IF GreaterU32(sum, U32(n)) THEN Slice(headers, offset, U32(n))
                 ELSE Slice(headers, offset, sum)
  IN  [pc |-> "done", offset |-> offset, limit |-> limit, n |-> n,
       items |-> sliced.items, total |-> n, panic |-> sliced.panic]

\* one request served
PageRequest(offset, limit, n) ==
  /\ page.pc = "off"
  /\ page' = repositorySnapshots(offset, limit, n)
  /\ UNCHANGED <<states, apiVars, concVars, sessVars, codecVars, lockVars, lateVars,
                 backendVars, orderVars, srv, locate>>

NextPage ==
  \E offset \in Uint32Values, limit \in Uint32Values, n \in 0..MaxSnapshots :
    PageRequest(offset, limit, n)

SpecPage == Init /\ [][NextPage]_vars

(* ------------------------------------------------------------------ *)
(* Claims on the State API                                              *)
(* ------------------------------------------------------------------ *)

\* the per-kind maps and the dirty flag of the State named t are left alone
MapsUnchanged(t) ==
  /\ \A f \in MapNames : states'[t][f] = states[t][f]
  /\ states'[t].dirty = states[t].dirty

\* C1: a set_location call for a (kind, mac) that was registered before is a
\* no-op: no per-kind map changes (the first writer's Location stays) and the
\* dirty flag is not written (after ResetDirty it stays 0).
C1_ReRegisterIsNoOp ==
  [][ (call'.op = "set" /\ call'.had) => MapsUnchanged(call'.t) ]_vars

\* C2: a set_location call for kind K on a (K, mac) not registered before puts
\* mac in K's own map, and no set_location call changes the map of another kind.
C2_SetWritesOwnMap ==
  [][ call'.op = "set" =>
        /\ \A f \in MapNames \ {MapOf(call'.kind)} :
               states'[call'.t][f] = states[call'.t][f]
        /\ ~call'.had =>
               call'.mac \in KeysByMAC(states'[call'.t], MapOf(call'.kind)) ]_vars

\* C3: exists(K, m) is true exactly when set_location(K, m, ...) was performed
\* on that State before, directly or through Merge.
C3_ExistsIffRegistered ==
  \A t \in StateNames, kind \in Kinds, mac \in MACs :
    ExistsFor(kind, states[t], mac).found <=> Registered(t, kind, mac)

\* C4: location(K, m) and GetPackfileFor<K>(m) return the (packfile MAC, offset,
\* length) of the first set_location(K, m, ...) call, and not-found for a MAC
\* that was never registered under K.
C4_LocationIsFirstWriter ==
  call.op \in {"subpart", "packfile"} =>
    IF Registered(call.t, call.kind, call.mac)
      THEN \E r \in registered[call.t] :
             /\ r.kind = call.kind /\ r.mac = call.mac
             /\ ret.found /\ ret.packfile = r.pf
             /\ call.op = "subpart" => (ret.offset = r.off /\ ret.length = r.len)
      ELSE ret = NotFound

\* the threads whose call is for (kind, mac)
Callers(kind, mac) ==
  { th \in Threads : thr[th].pc # "idle" /\ thr[th].kind = kind /\ thr[th].mac = mac }

\* C5: of the concurrent set_location calls for one (kind, mac) on a State that
\* had no entry for it, exactly one inserts and exactly one writes the dirty
\* flag; the Location stored is the one of the inserting call.
C5_ExactlyOneInsertion ==
  \A kind \in Kinds, mac \in MACs :
    LET callers  == Callers(kind, mac)
        inserted == { th \in callers : thr[th].inserted }
        dirtied  == { th \in callers : thr[th].dirtied }
    IN  Cardinality(callers) >= 2 =>
        /\ Cardinality(inserted) <= 1
        /\ Cardinality(dirtied) <= 1
        /\ (\A th \in callers : thr[th].pc = "done") =>
              /\ Cardinality(inserted) = 1
              /\ Cardinality(dirtied) = 1
              /\ \E th \in inserted :
                    GetSubpartFor(kind, states["repo"], mac).ret =
                      [found |-> TRUE, packfile |-> thr[th].pf,
                       offset |-> thr[th].off, length |-> thr[th].len]

(* ------------------------------------------------------------------ *)
(* Claims on the session                                                *)
(* ------------------------------------------------------------------ *)

\* the packfile MACs the Locations of a State name
ReferencedPackfiles(st) ==
  { ChecksumOfId(st, st[f][id].Packfile) :
      <<f, id>> \in { x \in MapNames \X DOMAIN st.IdToChecksum : x[2] \in DOMAIN st[x[1]] } }

\* the done latch has been signalled: Commit is past <-snapshot.packerChanDone
Latched == prod \in {"latched", "committed"} \/ (prod = "error" /\ closed)

\* the index entries of the backend's packfiles that hold message i
EntriesOf(i) ==
  { <<m, j>> \in (DOMAIN packfiles) \X (1..(MaxPuts + 1)) :
      j <= Len(packfiles[m].index) /\ packfiles[m].index[j].seq = i }

\* C6: when Commit has returned success, the state delta, which is the State
\* object stored, has a Location for the header and, under its own kind, for
\* every blob that was put in the session.
C6_CommitRegistersEveryBlob ==
  prod = "committed" =>
    /\ states["delta"] \in bstates
    /\ \A i \in 1..Len(sent) :
          sent[i].mac \in KeysByMAC(states["delta"], MapOfType(sent[i].type))

\* C7: whenever the header has a Location in the state delta or in the shared
\* state, set_location has been called for every other blob enqueued in the
\* session.
C7_HeaderObservedLast ==
  (\E t \in StateNames : HeaderBlob.mac \in KeysByMAC(states[t], "Snapshots")) =>
    \A i \in 1..Len(sent) :
      sent[i].type # "snapshot" => i \in observed["repo"] \cup observed["delta"]

\* C8: a State object is stored only after the done latch: the channel is
\* closed, every worker has returned, and every packfile a Location of the
\* stored delta names is in the backend.
C8_StateStoredAfterDone ==
  bstates # {} =>
    /\ closed
    /\ \A w \in Workers : wk[w].pc = "exited"
    /\ \A s \in bstates : ReferencedPackfiles(s) \subseteq DOMAIN packfiles

\* C8 witness: a delta is stored that names a packfile this session wrote
C8_Witness ==
  /\ ncpu = 2
  /\ \E s \in bstates : \E m \in ReferencedPackfiles(s) : m # OldPackfileMAC
  /\ Cardinality(DOMAIN packfiles) >= 3

\* C9: every packfile a Location names, in the shared state or in the delta,
\* is in the backend; a packfile whose put failed is named by no Location and
\* the Commit of its session does not succeed.
C9_RegisteredAfterPut ==
  /\ \A t \in StateNames : ReferencedPackfiles(states[t]) \subseteq DOMAIN packfiles
  /\ \A m \in failed :
        /\ \A t \in StateNames : m \notin ReferencedPackfiles(states[t])
        /\ prod # "committed"
        /\ bstates = {}

\* C9 witness: a put failed after an earlier packfile of the session was
\* stored and registered
C9_Witness ==
  /\ failed # {}
  /\ \E m \in ReferencedPackfiles(states["delta"]) : m # OldPackfileMAC
  /\ closed

\* C10: when the done latch is signalled, every message enqueued is in exactly
\* one index entry of exactly one packfile of the backend.
C10_EveryBlobPackedOnce ==
  Latched => \A i \in 1..Len(sent) : Cardinality(EntriesOf(i)) = 1

\* C10 witness: the latch is signalled and the backend holds a packfile whose
\* size never exceeded the threshold, written by a worker on its way out
C10_Witness ==
  /\ Latched
  /\ Len(sent) = MaxPuts + 1
  /\ \E m \in DOMAIN packfiles :
        /\ m # OldPackfileMAC
        /\ Size(packfiles[m]) <= PackfileSize
        /\ Len(packfiles[m].index) >= 1

RECURSIVE MaxLen(_)
\* the length of the largest blob of a sequence of messages
MaxLen(msgs) ==
  IF msgs = << >> THEN 0
  ELSE LET rest == MaxLen(Tail(msgs))
       IN  IF Head(msgs).len > rest THEN Head(msgs).len ELSE rest

\* the packfiles this session's workers wrote
Written == (DOMAIN packfiles) \ {OldPackfileMAC}

\* C11: every packfile a worker wrote has a data area of at most the configured
\* packfile size plus the largest blob of the session, and a worker about to
\* receive a message never holds a pack whose size is over the threshold.
C11_DataAreaBounded ==
  /\ \A m \in Written : DataLength(packfiles[m]) <= PackfileSize + MaxLen(sent)
  /\ \A w \in Workers :
        (wk[w].pc = "recv" /\ wk[w].pack.live) => Size(wk[w].pack) <= PackfileSize

\* C11 witness: a packfile was written whose data area is over the threshold,
\* made so by its last blob
C11_Witness ==
  \E m \in Written :
    /\ DataLength(packfiles[m]) > PackfileSize
    /\ Len(packfiles[m].index) >= 2

\* C12: in every packfile a worker wrote, a (type, MAC) has at most one index
\* entry, also when the producer enqueued the same blob twice.
C12_OneEntryPerMAC ==
  \A m \in Written :
    \A i, j \in 1..Len(packfiles[m].index) :
      ( /\ packfiles[m].index[i].type = packfiles[m].index[j].type
        /\ packfiles[m].index[i].mac = packfiles[m].index[j].mac ) => i = j

\* the run put exactly three chunks, all of length s, and the done latch is
\* signalled
ThreeChunksDone(s) ==
  /\ prod = "latched"
  /\ Len(sent) = 3
  /\ \A i \in 1..3 : sent[i].type = "chunk" /\ sent[i].len = s

\* exactly two packfiles were written, each with one or two blobs, three blobs
\* in all
TwoPackfilesOfThree ==
  /\ Cardinality(Written) = 2
  /\ \A m \in Written : Len(packfiles[m].index) \in {1, 2}
  /\ \A i \in 1..3 : Cardinality(EntriesOf(i)) = 1

InternTableOK(st) ==
  /\ DOMAIN st.IdToChecksum = 0..(Cardinality(DOMAIN st.IdToChecksum) - 1)
  /\ DOMAIN st.checksumToId = { st.IdToChecksum[id] : id \in DOMAIN st.IdToChecksum }
  /\ \A id \in DOMAIN st.IdToChecksum : st.checksumToId[st.IdToChecksum[id]] = id
  /\ \A c \in DOMAIN st.checksumToId : st.IdToChecksum[st.checksumToId[c]] = c

\* every id of st still stands for the same MAC in st2
IdsKept(st, st2) ==
  \A id \in DOMAIN st.IdToChecksum :
    id \in DOMAIN st2.IdToChecksum /\ st2.IdToChecksum[id] = st.IdToChecksum[id]

C15_IdsResolve ==
  \A t \in StateNames, f \in MapNames :
    \A id \in DOMAIN states[t][f] :
      /\ id \in DOMAIN states[t].IdToChecksum
      /\ states[t][f][id].Packfile \in DOMAIN states[t].IdToChecksum

\* C15 witness: a merge brought into repo a Location whose packfile has
\* another id in repo than in delta
C15_Witness ==
  /\ call.op = "merge"
  /\ \E f \in MapNames : \E e \in ByMAC(states["delta"], f) :
        /\ \E g \in MapNames : e \in ByMAC(states["repo"], g)
        /\ states["repo"].checksumToId[e.packfile] # states["delta"].checksumToId[e.packfile]

\* the step is a call of repo.Merge(id, delta)
MergeStep == call'.op = "merge" /\ nops' = nops + 1

\* C16: after st.Merge(id, delta) every entry of each of delta's five maps has
\* a Location in the same map of st, keyed by MAC: the one st had, or else
\* delta's; the entries st had are unchanged and so is delta.
C16_MergeKeepsKinds ==
  [][ MergeStep =>
        /\ states'["delta"] = states["delta"]
        /\ \A k \in Kinds :
              /\ \A x \in ByMAC(states["repo"], MapOf(k)) :
                    x \in ByMAC(states'["repo"], MapOf(k))
              /\ \A e \in ByMAC(states["delta"], MapOf(k)) :
                    e.mac \notin KeysByMAC(states["repo"], MapOf(k))
                      => e \in ByMAC(states'["repo"], MapOf(k)) ]_vars

\* two States agree on the Location of every (kind, MAC) both contain
Agree(a, b) ==
  \A k \in Kinds :
    \A x \in ByMAC(a, MapOf(k)), y \in ByMAC(b, MapOf(k)) : x.mac = y.mac => x = y

\* the five maps of two States are equal when compared by MAC
SameByMAC(a, b) == \A k \in Kinds : ByMAC(a, MapOf(k)) = ByMAC(b, MapOf(k))

\* C17: for two States that agree on what both contain, merging delta into
\* repo and merging repo into delta leave the same five maps, compared by MAC.
C17_MergeCommutes ==
  Agree(states["repo"], states["delta"]) =>
    \A ab \in Merge(states["repo"], states["delta"]),
       ba \in Merge(states["delta"], states["repo"]) : SameByMAC(ab, ba)

\* thread m waits for a mutex that it holds itself
SelfBlocked(m) ==
  mg[m].pc = "setlock" /\ lk[mg[m].st][KindOrder[mg[m].kind]] = m

\* C18: a merge of a State into itself does not get stuck and, when it has
\* returned, has left the five maps as they were; a merge of a delta that was
\* merged into the same State before leaves the State and its dirty flag as
\* they were.
C18_MergeIdempotent ==
  \A m \in MergeThreads :
    /\ ~SelfBlocked(m)
    /\ (mg[m].pc = "done" /\ mg[m].st = mg[m].delta)
          => SameByMAC(states[mg[m].st], mg[m].before)
    /\ (mg[m].pc = "done"
          /\ [st |-> mg[m].st, delta |-> states[mg[m].delta]] \in mg[m].past)
          => /\ SameByMAC(states[mg[m].st], mg[m].before)
             /\ states[mg[m].st].dirty = mg[m].before.dirty

\* the last NewFromBytes was given what Serialize made of a State
RoundTrip == loaded.called /\ loaded.of # NoState

\* C19: NewFromBytes of the Serialize of a State built by SetPackfileFor*,
\* Extends and Merge succeeds and returns a State with the same IdToChecksum,
\* the same per-kind maps and the same Extends, and a checksumToId that is the
\* inverse of IdToChecksum.
C19_SerializeRoundTrip ==
  RoundTrip =>
    /\ loaded.err = ""
    /\ loaded.st # NoState
    /\ loaded.st.IdToChecksum = loaded.of.IdToChecksum
    /\ \A f \in MapNames : loaded.st[f] = loaded.of[f]
    /\ loaded.st.Extends = loaded.of.Extends
    /\ InternTableOK(loaded.st)
    /\ loaded.st.checksumToId = loaded.of.checksumToId

\* C19 witness: the State that went through was built by a SetPackfileFor*,
\* an Extends and a Merge
C19_Witness ==
  /\ RoundTrip
  /\ loaded.err = ""
  /\ call.op = "merge"
  /\ loaded.of = states["repo"]
  /\ Cardinality(DOMAIN loaded.of.IdToChecksum) >= 4
  /\ loaded.of.Extends # << >>
  /\ loaded.st.Chunks # EmptyMap

\* C20: NewFromBytes returns an error and no State, and does not decode the
\* body, for an input of fewer than 4 bytes and for an input whose last 4
\* bytes, read as a little-endian u32, are not VERSION.
C20_RejectsShortOrOtherVersion ==
  ( /\ loaded.called
    /\ \/ Len(loaded.input) < 4
       \/ Uint32(SubSeq(loaded.input, Len(loaded.input) - 3, Len(loaded.input))) # VERSION )
    => /\ loaded.err # ""
       /\ loaded.st = NoState
       /\ ~loaded.decoded

\* C20 witness: an object whose first version byte is that of VERSION and
\* whose second is not was rejected
C20_Witness ==
  /\ loaded.called
  /\ Len(loaded.input) > 4
  /\ loaded.input[Len(loaded.input) - 3] = VERSION
  /\ loaded.err = "invalid state version"

(* ------------------------------------------------------------------ *)
(* Claims on loading, failures and cancellation                         *)
(* ------------------------------------------------------------------ *)

\* some key of a per-kind map, or some Location.Packfile, is an id that is not
\* smaller than len(IdToChecksum)
DanglingIds(st) ==
  \E f \in MapNames : \E id \in DOMAIN st[f] :
    \/ id >= Cardinality(DOMAIN st.IdToChecksum)
    \/ st[f][id].Packfile >= Cardinality(DOMAIN st.IdToChecksum)

\* the State the bytes given to NewFromBytes encode has such an id
LoadedDangling ==
  /\ loaded.called
  /\ Len(loaded.input) >= 4
  /\ LET u == Unmarshal(SubSeq(loaded.input, 1, Len(loaded.input) - 4))
     IN  u.ok /\ DanglingIds(u.st)

\* C21: NewFromBytes on a serialized State with a key id or a Location.Packfile
\* id that is not smaller than len(IdToChecksum) returns an error and no State
C21_LoadRejectsDanglingIds ==
  LoadedDangling => (loaded.err # "" /\ loaded.st = NoState)

\* the step is a <Kind>Exists call
ExistsStep == call'.op = "exists" /\ nops' = nops + 1

\* C25: a <Kind>Exists call, for a MAC that is known or not, leaves every
\* field of the State as it was: IdToChecksum, the per-kind maps, the dirty
\* flag.
C25_ExistsIsPure ==
  [][ExistsStep => states' = states]_vars

\* C23: once the flush of a packfile has failed in a worker, the session goes
\* on (the process is not stopped, so the channel can be drained, the other
\* workers can exit and the done latch can be signalled) and Commit does not
\* return success.
C23_FlushErrorReachesCommit ==
  failed # {} => (~panicked /\ prod # "committed")

\* C22: a Put* call, or a second Commit, made after Commit closed the packer
\* channel returns a SessionClosed error to its caller and enqueues nothing.
C22_PutAfterCloseIsRefused ==
  late.op # "none" =>
    /\ late.outcome = "SessionClosed"
    /\ ~late.enqueued
    /\ ~panicked

\* C24: once the caller has given the session up before Commit, no state
\* object is stored, no packfile is written and no State is given a Location.
C24_CanceledSessionWritesNothing ==
  [][prod = "canceled" =>
       (bstates' = bstates /\ packfiles' = packfiles /\ states' = states)]_vars

(* ------------------------------------------------------------------ *)
(* Claims on the backends                                               *)
(* ------------------------------------------------------------------ *)

NoDuplicates(seq) == \A i, j \in 1..Len(seq) : seq[i] = seq[j] => i = j

\* C26: after any sequence of put and delete calls on the two namespaces,
\* the list of a namespace holds exactly the MACs put into it and not deleted
\* since, each once, and get of such a MAC returns the bytes last put under
\* it; what was called on the other namespace plays no part.
C26_BackendIsTwoMaps ==
  \A space \in Spaces :
    LET l == GetList(bucket, space)
    IN  /\ l.err = ""
        /\ NoDuplicates(l.list)
        /\ { l.list[i] : i \in 1..Len(l.list) } = DOMAIN stored[space].live
        /\ \A mac \in DOMAIN stored[space].live :
             GetObject(bucket, space, mac) = [err |-> "", data |-> stored[space].live[mac]]
        /\ \A mac \in StoreMACs \ DOMAIN stored[space].live :
             GetObject(bucket, space, mac).err # ""

\* C26 witness: a MAC was put into both namespaces and then deleted from
\* states only
C26_Witness ==
  \E mac \in StoreMACs :
    /\ mac \in stored["states"].gone
    /\ mac \notin DOMAIN stored["states"].live
    /\ mac \in DOMAIN stored["packfiles"].live

\* the offsets and lengths of the ranged reads that are checked
ReadRange == 0..6

Visible(space, checksum) ==
  \/ FsGet(files, space, checksum).err = ""
  \/ /\ space # "snapshots"
     /\ \E i \in 1..Len(FsGetList(files, space).list) :
          FsGetList(files, space).list[i] = checksum

\* C28: while a write to a key that held nothing is under way, and after it
\* has failed, no object is visible under the key.
C28_FailedWriteLeavesNothing ==
  ( /\ bcall.op \in {"put", "commit"}
    /\ bcall.fresh
    /\ (bcall.pc = "write" \/ bcall.err # "") )
    => ~Visible(bcall.space, bcall.mac)

(* ------------------------------------------------------------------ *)
(* Claims on the mutexes of State                                       *)
(* ------------------------------------------------------------------ *)

\* C29: of the mutexes a thread holds, muChecksum was never acquired after a
\* per-kind mutex: no thread locks the intern table while it holds the mutex
\* of a map.
C29_InternBeforeKind ==
  \A th \in OrderThreads :
    \A i, j \in 1..Len(ops[th].held) :
      (i < j /\ ops[th].held[i][2] \in Kinds) => ops[th].held[j][2] # "checksum"

\* thread th waits for a mutex that is held
Blocked(th) ==
  /\ InCall(th)
  /\ Cur(th).do = "lock"
  /\ mutex[Cur(th).t][Cur(th).name] # 0

\* C30: no set of threads is stuck, each waiting for a mutex that a thread of
\* the set holds.
C30_NoDeadlock ==
  ~ \E S \in (SUBSET OrderThreads) \ {{}} :
      \A th \in S : Blocked(th) /\ mutex[Cur(th).t][Cur(th).name] \in S

(* ------------------------------------------------------------------ *)
(* Claims on the flush, the channel and the servers                     *)
(* ------------------------------------------------------------------ *)

\* the Locations a State holds, whichever map they are filed in
AllByMAC(st) == UNION { ByMAC(st, field) : field \in MapNames }

\* the packfile named by a Location is stored and has an index entry for the
\* MAC with the Location's offset and length
InFlushedPackfile(loc) ==
  /\ loc.packfile \in DOMAIN packfiles
  /\ \E i \in 1..Len(packfiles[loc.packfile].index) :
       LET entry == packfiles[loc.packfile].index[i]
       IN  /\ entry.mac = loc.mac
           /\ entry.offset = loc.offset
           /\ entry.length = loc.length
           /\ entry.offset + entry.length <= DataLength(packfiles[loc.packfile])

C32_DeltaKeysInRepo ==
  \A field \in MapNames :
    KeysByMAC(states["delta"], field) \subseteq KeysByMAC(states["repo"], field)

\* a blob another writer registered first: the delta and the shared state hold
\* it in the same map under different packfiles
C32_Witness ==
  \E field \in MapNames :
    \E d \in ByMAC(states["delta"], field), r \in ByMAC(states["repo"], field) :
      d.mac = r.mac /\ d.packfile # r.packfile

\* the producer cannot send: the channel holds 2*workers+1 messages
ChannelFull == Len(chan) = ChanCapacity

AccessesRepository(h) ==
  /\ srv.handlers[h].pc = "start"
  /\ \/ srv.handlers[h].req.Type \in OpenTypes
     \/ ReadsRepository(srv.handlers[h].req)

\* two handler goroutines are about to access lrepository, one of them to
\* assign it, and nothing orders them
Raced ==
  \E i, j \in 1..Len(srv.handlers) :
    /\ i # j
    /\ srv.handlers[i].req.Type \in OpenTypes
    /\ AccessesRepository(i)
    /\ AccessesRepository(j)

\* C34: a handler that has read lrepository did so after the handler of every
\* ReqOpen or ReqCreate decoded before it had assigned it, and no two handlers
\* access lrepository in a data race.
C34_RequestsSeeTheOpenedRepository ==
  /\ ~Raced
  /\ \A i \in 1..Len(srv.handlers) :
       (srv.handlers[i].at # 0 /\ srv.handlers[i].req.Type \notin OpenTypes) =>
         \A j \in 1..(i - 1) :
           srv.handlers[j].req.Type \in OpenTypes =>
             (srv.handlers[j].at # 0 /\ srv.handlers[j].at < srv.handlers[i].at)

\* the response a refused delete is answered with
Refusal(handler) ==
  [Uuid |-> handler.Uuid,
   Type |-> IF handler.req.Type = "ReqDeleteState"
              THEN "ResDeleteState" ELSE "ResDeletePackfile",
   Err |-> "not allowed to delete",
   Checksums |-> {}]

\* a step of the handler of a delete request
DeleteHandlerStep(h) ==
  /\ srv.handlers[h].req.Type \in DeleteTypes
  /\ srv'.handlers[h].pc # srv.handlers[h].pc

Located(opts) ==
  { id \in DOMAIN LocateSnapshots :
      LET hdr == LocateSnapshots[id]
      IN  /\ hdr.ok
          /\ opts.Name = "" \/ hdr.Name = opts.Name
          /\ opts.Category = "" \/ hdr.Category = opts.Category
          /\ opts.Environment = "" \/ hdr.Environment = opts.Environment
          /\ opts.Perimeter = "" \/ hdr.Perimeter = opts.Perimeter
          /\ opts.Job = "" \/ hdr.Job = opts.Job
          /\ opts.Tag = "" \/ opts.Tag \in hdr.Tags
          /\ opts.Before = 0 \/ hdr.Timestamp <= opts.Before
          /\ opts.Since = 0 \/ hdr.Timestamp >= opts.Since }

\* C36: with Latest unset and MaxConcurrency >= 1, the IDs LocateSnapshotIDs
\* returns are the snapshots that load and satisfy every filter that is set,
\* each exactly once, whatever the order the loaders ran in.
C36_LocateReturnsTheMatches ==
  (locate.pc = "returned" /\ ~locate.opts.Latest /\ locate.opts.MaxConcurrency >= 1) =>
    /\ NoDuplicates(locate.resultSet)
    /\ { locate.resultSet[i] : i \in 1..Len(locate.resultSet) } = Located(locate.opts)

\* two loaders ran at a time, one snapshot failed to load, one was filtered
\* out, and the two that match came back in the order opposite to their age
C36_Witness ==
  /\ locate.pc = "returned"
  /\ ~locate.opts.Latest
  /\ locate.opts.MaxConcurrency = 2
  /\ locate.opts.Name = "a"
  /\ locate.resultSet = << 32, 31 >>

\* C37: with Latest set, at most one ID is returned, and it is a matching
\* snapshot that no matching snapshot is more recent than, for every SortOrder.
C37_LatestIsTheMostRecent ==
  (locate.pc = "returned" /\ locate.opts.Latest) =>
    /\ Len(locate.resultSet) <= 1
    /\ Located(locate.opts) # {} => Len(locate.resultSet) = 1
    /\ \A i \in 1..Len(locate.resultSet) :
         /\ locate.resultSet[i] \in Located(locate.opts)
         /\ \A other \in Located(locate.opts) :
              LocateSnapshots[other].Timestamp
                <= LocateSnapshots[locate.resultSet[i]].Timestamp

\* the listing loop waits to send on the semaphore channel, which has no room,
\* and no loader exists that could receive from it
BlockedForever ==
  /\ locate.pc = "list"
  /\ locate.todo # {}
  /\ locate.sem >= locate.opts.MaxConcurrency
  /\ locate.running = {}

\* C38: LocateSnapshotIDs never comes to a point where the listing loop is
\* blocked on the semaphore channel for good, MaxConcurrency = 0 included.
C38_LocateNeverBlocksForever == ~BlockedForever

\* the positions [offset, min(offset + limit, n)), with offset + limit the sum
\* of the two numbers; all from offset on when limit is 0
RequestedRange(offset, limit, n) ==
  LET beyond == offset[1] > 0 \/ offset[2] >= n
      end    == IF limit = U32(0) \/ limit[1] > 0 \/ offset[2] + limit[2] >= n
                  THEN n ELSE offset[2] + limit[2]
  IN  IF beyond THEN << >> ELSE [i \in 1..(end - offset[2]) |-> offset[2] + i - 1]

\* C39: repositorySnapshots answers every offset and limit with the headers at
\* the requested positions and Total = n, and never fails on a slice out of
\* range.
C39_PageIsTheRequestedRange ==
  page.pc = "done" =>
    /\ ~page.panic
    /\ page.total = page.n
    /\ page.items = RequestedRange(page.offset, page.limit, page.n)

====
